---- MODULE Spec2Model ----
(***************************************************************************)
(* velowm: the window-manager control loop (velowm_core/wm.rs), the        *)
(* master-stack layout engine (ui/layout.rs) and the workspace / window    *)
(* model (velowm_core/workspace.rs, velowm_core/window.rs), together with  *)
(* the part of the X server the handlers read and write: which windows     *)
(* exist and are mapped, their geometry, border width and border colour,   *)
(* the input focus, the pointer, the root properties and the event queue.  *)
(*                                                                         *)
(* Every handler is an operator from a state record to a state record, so  *)
(* that a property about two handlers in a row can be stated on one state. *)
(***************************************************************************)
EXTENDS Integers, Sequences, FiniteSets, TLC

VARIABLES workspaces, current_workspace, layout, gesture, running, server, queue,
          events, probe

vars == <<workspaces, current_workspace, layout, gesture, running, server, queue,
          events, probe>>

(***************************************************************************)
(* Bounds of the model.                                                    *)
(***************************************************************************)
\* number of workspaces created at startup (the program creates ten)
NumWorkspaces == 2
\* client (non-dock) top-level windows that exist on the server
NumClients == 2
\* windows that advertise _NET_WM_WINDOW_TYPE_DOCK
NumDocks == 1
\* events that may wait in the server's queue for the manager
MaxQueue == 2
\* requests the clients and the user make in one run
MaxEvents == 5

(***************************************************************************)
(* Program constants and the environment the program reads at startup.     *)
(***************************************************************************)
\* xlib::PointerRoot, the focus value the server reverts to
PointerRoot == 1
\* the root window id, MasterStackLayout::get_root
Root == 2
\* the first Xinerama monitor, read once in MasterStackLayout::new
MonitorX == 0
MonitorY == 0
MonitorWidth == 1920
MonitorHeight == 1080
\* Config::default
border_width == 2
gaps == 8
float_width == 800
float_height == 600
center_on_float == TRUE
focus_follows_mouse ==
    IF probe.kind = "config" THEN probe.focus_follows_mouse ELSE TRUE

Clients == (Root + 1)..(Root + NumClients)
Docks == (Root + NumClients + 1)..(Root + NumClients + NumDocks)
AllWindows == Clients \cup Docks
WorkspaceIndexes == 0..(NumWorkspaces - 1)

\* Option<T>: None is the empty sequence, Some(v) the one-element sequence
None == <<>>
Some(v) == <<v>>
IsSome(o) == o # <<>>
Unwrap(o) == o[1]

Max(a, b) == IF a >= b THEN a ELSE b
Min(a, b) == IF a <= b THEN a ELSE b
\* u32::saturating_sub
saturating_sub(a, b) == IF a >= b THEN a - b ELSE 0

\* the geometry a client asked for before it is managed
InitialGeometry(w) ==
    IF w \in Docks
    THEN [x |-> 0, y |-> 0, width |-> MonitorWidth, height |-> 30]
    ELSE [x |-> 0, y |-> 0, width |-> 800, height |-> 600]

(***************************************************************************)
(* Window::new                                                             *)
(***************************************************************************)
Window_new(id, wx, wy, width, height) ==
    [id |-> id, x |-> wx, y |-> wy, width |-> width, height |-> height,
     is_floating |-> FALSE,
     pre_float_x |-> 0, pre_float_y |-> 0,
     pre_float_width |-> 0, pre_float_height |-> 0,
     is_fullscreen |-> FALSE,
     pre_fullscreen_x |-> 0, pre_fullscreen_y |-> 0,
     pre_fullscreen_width |-> 0, pre_fullscreen_height |-> 0,
     pre_fullscreen_border_width |-> 0,
     is_dock |-> FALSE]

(***************************************************************************)
(* Workspace                                                               *)
(***************************************************************************)
Workspace_new(index) == [windows |-> <<>>, focused |-> None]

\* position (1-based) of the first record with this id, 0 when there is none
Position(windows, id) ==
    IF \E i \in 1..Len(windows) : windows[i].id = id
    THEN CHOOSE i \in 1..Len(windows) :
            /\ windows[i].id = id
            /\ \A j \in 1..(i - 1) : windows[j].id # id
    ELSE 0

RemoveAt(seq, i) == SubSeq(seq, 1, i - 1) \o SubSeq(seq, i + 1, Len(seq))

\* add_window that leaves a focus index alone once there is one
MutantAddKeepsFocus(ws, window) ==
    [ws EXCEPT !.windows = Append(ws.windows, window),
               !.focused = IF IsSome(ws.focused) THEN ws.focused
                           ELSE Some(Len(ws.windows))]

Workspace_add_window(ws, window) ==
    [ws EXCEPT !.windows = Append(ws.windows, window),
               !.focused = Some(Len(ws.windows))]

\* remove_window that drops every record of the id, as a retain would
MutantRemoveEveryRecord(ws, window_id) ==
    LET rest == SelectSeq(ws.windows, LAMBDA w : w.id # window_id)
    IN [ws EXCEPT !.windows = rest]

\* remove_window that keeps the focus index of the removed record
MutantRemoveKeepsIndex(ws, window_id) ==
    LET p == Position(ws.windows, window_id)
        idx == p - 1
        rest == RemoveAt(ws.windows, p)
    IN IF p = 0 THEN ws
       ELSE [ws EXCEPT !.windows = rest,
                       !.focused = IF ws.focused = Some(idx)
                                   THEN (IF rest # <<>> THEN Some(idx) ELSE None)
                                   ELSE ws.focused]

Workspace_remove_window(ws, window_id) ==
    LET p == Position(ws.windows, window_id)
        idx == p - 1
        rest == RemoveAt(ws.windows, p)
    IN IF p = 0 THEN ws
       ELSE [ws EXCEPT !.windows = rest,
                       !.focused = IF ws.focused = Some(idx)
                                   THEN (IF rest # <<>>
                                         THEN Some(saturating_sub(idx, 1))
                                         ELSE None)
                                   ELSE ws.focused]

\* Option<Window>: the record at the focus index, if the index is in range
Workspace_get_focused_window(ws) ==
    IF IsSome(ws.focused) /\ Unwrap(ws.focused) < Len(ws.windows)
    THEN Some(ws.windows[Unwrap(ws.focused) + 1])
    ELSE None

(***************************************************************************)
(* The X server requests the manager issues.  A request on a window that   *)
(* no longer exists raises an error the installed handler swallows, and    *)
(* changes nothing.  s is the whole state: the manager's fields, the       *)
(* server's state and the queue of events waiting for the manager.         *)
(***************************************************************************)
XExists(s, w) == w \in AllWindows /\ s.server.exists[w]

\* the server reverts the focus to PointerRoot when the focus window stops
\* being viewable (every XSetInputFocus passes RevertToPointerRoot)
RevertFocus(s, w) == IF s.server.focus = w THEN PointerRoot ELSE s.server.focus

XMapWindow(s, w) ==
    IF XExists(s, w) THEN [s EXCEPT !.server.mapped[w] = TRUE] ELSE s

\* unmapping a mapped window sends UnmapNotify to the root's
\* SubstructureNotify listener, which is the manager itself.  origin records
\* who asked: the event the manager receives does not carry it
Unmapped(s, w, origin) ==
    IF XExists(s, w) /\ s.server.mapped[w]
    THEN [s EXCEPT !.server.mapped[w] = FALSE,
                   !.server.focus = RevertFocus(s, w),
                   !.queue = Append(@, [type |-> "UnmapNotify", window |-> w,
                                        origin |-> origin])]
    ELSE s

XUnmapWindow(s, w) == Unmapped(s, w, "manager")

\* the server's part of a DestroyWindow request, whoever sent it
Destroyed(s, w) ==
    IF XExists(s, w)
    THEN [s EXCEPT !.server.exists[w] = FALSE,
                   !.server.mapped[w] = FALSE,
                   !.server.focus = RevertFocus(s, w),
                   !.queue = @ \o (IF s.server.mapped[w]
                                   THEN <<[type |-> "UnmapNotify", window |-> w,
                                           origin |-> "destroy"]>>
                                   ELSE <<>>)
                               \o <<[type |-> "DestroyNotify", window |-> w]>>]
    ELSE s

\* the manager's request joins the requests it has sent while handling the
\* event it dequeued last
Issued(s, request) == [s EXCEPT !.server.sent = Append(@, request)]

XDestroyWindow(s, w) ==
    Destroyed(Issued(s, [request |-> "DestroyWindow", window |-> w]), w)

\* XSendEvent with no event mask: the event goes to the client that created
\* the window, and changes nothing the server holds
XSendEvent(s, w, event) ==
    Issued(s, [request |-> "SendEvent", window |-> w, event |-> event])

XMoveResizeWindow(s, w, gx, gy, gw, gh) ==
    IF XExists(s, w)
    THEN [s EXCEPT !.server.geom[w] = [x |-> gx, y |-> gy, width |-> gw, height |-> gh]]
    ELSE s

XMoveWindow(s, w, gx, gy) ==
    IF XExists(s, w)
    THEN [s EXCEPT !.server.geom[w].x = gx, !.server.geom[w].y = gy]
    ELSE s

XResizeWindow(s, w, gw, gh) ==
    IF XExists(s, w)
    THEN [s EXCEPT !.server.geom[w].width = gw, !.server.geom[w].height = gh]
    ELSE s

XSetWindowBorderWidth(s, w, bw) ==
    IF XExists(s, w) THEN [s EXCEPT !.server.border[w] = bw] ELSE s

XSetWindowBorder(s, w, colour) ==
    IF XExists(s, w) THEN [s EXCEPT !.server.color[w] = colour] ELSE s

\* BadMatch when the window is not viewable, BadWindow when it is no window
XSetInputFocus(s, w) ==
    IF w \in {0, PointerRoot, Root} \/ (XExists(s, w) /\ s.server.mapped[w])
    THEN [s EXCEPT !.server.focus = w]
    ELSE s

XSelectInput(s, w) ==
    IF XExists(s, w) THEN [s EXCEPT !.server.select[w] = TRUE] ELSE s

XGrabButton(s, w) ==
    IF XExists(s, w) THEN [s EXCEPT !.server.grab[w] = TRUE] ELSE s

\* XGetWindowAttributes fills a zeroed struct, which stays zeroed on error
XGetWindowAttributes(s, w) ==
    IF XExists(s, w)
    THEN [x |-> s.server.geom[w].x, y |-> s.server.geom[w].y,
          width |-> s.server.geom[w].width, height |-> s.server.geom[w].height,
          border_width |-> s.server.border[w]]
    ELSE [x |-> 0, y |-> 0, width |-> 0, height |-> 0, border_width |-> 0]

\* XTranslateCoordinates of the window's origin (inside its border) to the root
XTranslateCoordinates(s, w) ==
    IF XExists(s, w)
    THEN [x |-> s.server.geom[w].x + s.server.border[w],
          y |-> s.server.geom[w].y + s.server.border[w]]
    ELSE [x |-> 0, y |-> 0]

\* XQueryPointer on the root: the mapped child the pointer is in, and where
XQueryPointer(s) ==
    [child |-> IF XExists(s, s.server.pointer.child)
                  /\ s.server.mapped[s.server.pointer.child]
               THEN s.server.pointer.child ELSE 0,
     root_x |-> s.server.pointer.x,
     root_y |-> s.server.pointer.y]

\* the window's _NET_WM_WINDOW_TYPE is _NET_WM_WINDOW_TYPE_DOCK
HasDockType(s, w) == XExists(s, w) /\ s.server.window_type[w] = "dock"

set_active_window(s, w) == [s EXCEPT !.server.net_active_window = w]

update_current_desktop(s) ==
    [s EXCEPT !.server.net_current_desktop = s.current_workspace]

(***************************************************************************)
(* MasterStackLayout                                                       *)
(***************************************************************************)
focus_window(s, window) ==
    IF window = Root THEN s
    ELSE LET s1 == IF IsSome(s.layout.focused_window)
                   THEN XSetWindowBorder(s, Unwrap(s.layout.focused_window), "normal")
                   ELSE s
             s2 == XSetInputFocus(XSetWindowBorder(s1, window, "focused"), window)
         IN [s2 EXCEPT !.layout.focused_window = Some(window)]

\* relayout with the stack tiles placed one under the other with no gap
MutantTileRectNoStackGap(n, i, screen_width, monitor_height, gaps_, dock_position, dock_height) ==
    LET y_offset == IF dock_position = "Top" THEN dock_height ELSE 0
        screen_height == saturating_sub(monitor_height, dock_height)
        usable_width == saturating_sub(screen_width, gaps_ * 2)
        usable_height == saturating_sub(screen_height, gaps_ * 2)
        \* master_width_ratio is 0.5 and is never changed
        master_width == Min(Max(usable_width \div 2, usable_width \div 3),
                            (2 * usable_width) \div 3)
        stack_width == saturating_sub(saturating_sub(usable_width, master_width), gaps_)
        stack_count == n - 1
        total_stack_gaps == gaps_ * saturating_sub(stack_count, 1)
        height_per_window == saturating_sub(usable_height, total_stack_gaps) \div stack_count
    IN IF n = 1
       THEN [x |-> MonitorX + gaps_, y |-> MonitorY + y_offset + gaps_,
             width |-> usable_width, height |-> usable_height]
       ELSE IF i = 0
       THEN [x |-> MonitorX + gaps_, y |-> MonitorY + y_offset + gaps_,
             width |-> master_width, height |-> usable_height]
       ELSE [x |-> MonitorX + gaps_ + master_width + gaps_,
             y |-> MonitorY + y_offset + gaps_ + ((i - 1) * height_per_window),
             width |-> stack_width, height |-> height_per_window]

\* the rectangle relayout gives the tile at index i (0-based) of n tiles on
\* a monitor at (MonitorX, MonitorY) of the given size, with the given gaps
TileRect(n, i, screen_width, monitor_height, gaps_, dock_position, dock_height) ==
    LET y_offset == IF dock_position = "Top" THEN dock_height ELSE 0
        screen_height == saturating_sub(monitor_height, dock_height)
        usable_width == saturating_sub(screen_width, gaps_ * 2)
        usable_height == saturating_sub(screen_height, gaps_ * 2)
        \* master_width_ratio is 0.5 and is never changed
        master_width == Min(Max(usable_width \div 2, usable_width \div 3),
                            (2 * usable_width) \div 3)
        stack_width == saturating_sub(saturating_sub(usable_width, master_width), gaps_)
        stack_count == n - 1
        total_stack_gaps == gaps_ * saturating_sub(stack_count, 1)
        height_per_window == saturating_sub(usable_height, total_stack_gaps) \div stack_count
    IN IF n = 1
       THEN [x |-> MonitorX + gaps_, y |-> MonitorY + y_offset + gaps_,
             width |-> usable_width, height |-> usable_height]
       ELSE IF i = 0
       THEN [x |-> MonitorX + gaps_, y |-> MonitorY + y_offset + gaps_,
             width |-> master_width, height |-> usable_height]
       ELSE [x |-> MonitorX + gaps_ + master_width + gaps_,
             y |-> MonitorY + y_offset + gaps_ + ((i - 1) * (height_per_window + gaps_)),
             width |-> stack_width, height |-> height_per_window]

\* the same on the monitor and with the gaps of the running manager
TileGeometry(n, i, dock_position, dock_height) ==
    TileRect(n, i, MonitorWidth, MonitorHeight, gaps, dock_position, dock_height)

\* apply_window_geometry for every index in turn: when an id is in the list
\* twice the server keeps the rectangle applied last
relayout(s) ==
    LET n == Len(s.layout.windows)
        G(i) == TileGeometry(n, i - 1, s.layout.dock_position, s.layout.dock_height)
        tiles == [i \in 1..n |->
                    [id |-> s.layout.windows[i].id, x |-> G(i).x, y |-> G(i).y,
                     width |-> G(i).width, height |-> G(i).height]]
        LastIndex(w) == CHOOSE i \in 1..n :
                            /\ tiles[i].id = w
                            /\ \A j \in (i + 1)..n : tiles[j].id # w
        Tiled(w) == \E i \in 1..n : tiles[i].id = w
    IN IF n = 0 THEN s
       ELSE [s EXCEPT !.layout.windows = tiles,
                      !.server.geom = [w \in AllWindows |->
                          IF XExists(s, w) /\ Tiled(w)
                          THEN [x |-> G(LastIndex(w)).x, y |-> G(LastIndex(w)).y,
                                width |-> G(LastIndex(w)).width,
                                height |-> G(LastIndex(w)).height]
                          ELSE s.server.geom[w]]]

add_window(s, window) ==
    LET s1 == XSetWindowBorder(
                 XSetWindowBorderWidth(s, window, border_width), window, "normal")
        s2 == XSelectInput(s1, window)
        attrs == XGetWindowAttributes(s2, window)
        new_window == [id |-> window, x |-> attrs.x, y |-> attrs.y,
                       width |-> attrs.width, height |-> attrs.height]
        s3 == [s2 EXCEPT !.layout.windows = Append(@, new_window)]
    IN focus_window(relayout(s3), window)

clear_windows(s) ==
    [s EXCEPT !.layout.windows = <<>>, !.layout.focused_window = None]

remove_window(s, window) ==
    LET others == SelectSeq(s.layout.windows, LAMBDA t : t.id # window)
        s1 == IF s.layout.focused_window = Some(window)
              THEN LET s0 == [s EXCEPT !.layout.focused_window = None]
                   IN IF others # <<>> THEN focus_window(s0, others[1].id) ELSE s0
              ELSE s
    IN relayout([s1 EXCEPT !.layout.windows = others])

update_dock_space(s, y, height) ==
    relayout([s EXCEPT !.layout.dock_position =
                          IF y < MonitorHeight \div 2 THEN "Top" ELSE "Bottom",
                       !.layout.dock_height = height])

TilePosition(s, window) == Position(s.layout.windows, window)

\* swap_windows that leaves the tile list as it is
MutantSwapKeepsOrder(s, window1, window2) == relayout(s)

swap_windows(s, window1, window2) ==
    LET idx1 == TilePosition(s, window1)
        idx2 == TilePosition(s, window2)
    IN IF idx1 # 0 /\ idx2 # 0
       THEN relayout([s EXCEPT !.layout.windows =
                        [@ EXCEPT ![idx1] = s.layout.windows[idx2],
                                  ![idx2] = s.layout.windows[idx1]]])
       ELSE s

(***************************************************************************)
(* WindowManager: helpers                                                  *)
(***************************************************************************)
CurrentWorkspace(s) == s.workspaces[s.current_workspace]

HasRecord(ws, id) == Position(ws.windows, id) # 0

\* workspace.windows.iter().find(|w| w.id == id), when there is one
FindRecord(ws, id) == ws.windows[Position(ws.windows, id)]

\* iter_mut().find(..) followed by assignments: the first record with the id
UpdateRecord(s, id, new) ==
    [s EXCEPT !.workspaces[s.current_workspace].windows[
                  Position(CurrentWorkspace(s).windows, id)] = new]

\* the loop that repaints every window of the current workspace: the focused
\* colour for the given id, the normal colour for every other one
PaintBorders(s, focused_id) ==
    LET ids == {CurrentWorkspace(s).windows[i].id :
                    i \in 1..Len(CurrentWorkspace(s).windows)}
    IN [s EXCEPT !.server.color = [w \in AllWindows |->
            IF w \in ids /\ s.server.exists[w]
            THEN (IF w = focused_id THEN "focused" ELSE "normal")
            ELSE s.server.color[w]]]

\* XGetInputFocus, then _NET_ACTIVE_WINDOW, then the workspace's focus index
FocusedWindowId(s) ==
    LET focused_win == s.server.focus
        net_active_win == s.server.net_active_window
        ws_focused == Workspace_get_focused_window(CurrentWorkspace(s))
    IN IF focused_win # 0 /\ focused_win # Root THEN focused_win
       ELSE IF net_active_win # 0 /\ net_active_win # Root THEN net_active_win
       ELSE IF IsSome(ws_focused) THEN Unwrap(ws_focused).id
       ELSE 0

(***************************************************************************)
(* WindowManager::toggle_float                                             *)
(***************************************************************************)
\* the branch taken for a record that is floating: back to the tile list
Unfloat(s, window_id) ==
    LET window == FindRecord(CurrentWorkspace(s), window_id)
        s1 == UpdateRecord(s, window_id,
                 [window EXCEPT !.is_floating = FALSE,
                                !.x = window.pre_float_x,
                                !.y = window.pre_float_y,
                                !.width = window.pre_float_width,
                                !.height = window.pre_float_height])
    IN relayout(add_window(s1, window_id))

\* org as i32 + ((size as u32 - float_size) / 2) as i32.  The subtraction is
\* one of u32: when float_size is the larger it panics in a build with
\* overflow checks (None) and wraps around 2^32 in a build without
centre_origin(org, size, float_size, overflow_checks) ==
    IF size >= float_size THEN Some(org + ((size - float_size) \div 2))
    ELSE IF overflow_checks THEN None
    ELSE Some(org + (2147483647 - ((float_size - size - 1) \div 2)))

\* the branch taken for a record that is not floating, or for no record
Float(s, window_id) ==
    LET ws == CurrentWorkspace(s)
        window == FindRecord(ws, window_id)
        child == XTranslateCoordinates(s, window_id)
        new_x == Unwrap(centre_origin(MonitorX, MonitorWidth, float_width, FALSE))
        new_y == Unwrap(centre_origin(MonitorY, MonitorHeight, float_height, FALSE))
        saved == [window EXCEPT !.is_floating = TRUE,
                                !.pre_float_x = child.x,
                                !.pre_float_y = child.y,
                                !.pre_float_width = window.width,
                                !.pre_float_height = window.height]
        centred == [saved EXCEPT !.width = float_width,
                                 !.height = float_height,
                                 !.x = new_x, !.y = new_y,
                                 !.pre_float_x = new_x,
                                 !.pre_float_y = new_y]
        s1 == IF ~HasRecord(ws, window_id) THEN s
              ELSE IF center_on_float
              THEN XMoveResizeWindow(UpdateRecord(s, window_id, centred), window_id,
                                     centred.x, centred.y, centred.width, centred.height)
              ELSE UpdateRecord(s, window_id, saved)
    IN relayout(remove_window(s1, window_id))

toggle_float(s) ==
    LET window_id == FocusedWindowId(s)
        ws == CurrentWorkspace(s)
        is_floating == HasRecord(ws, window_id) /\ FindRecord(ws, window_id).is_floating
        s1 == IF is_floating THEN Unfloat(s, window_id) ELSE Float(s, window_id)
    IN IF window_id = 0 THEN s
       ELSE PaintBorders(set_active_window(XSetInputFocus(s1, window_id), window_id),
                         window_id)

(***************************************************************************)
(* WindowManager::toggle_fullscreen                                        *)
(***************************************************************************)
\* toggle_fullscreen without the save of the border width
MutantFullscreenForgetsBorder(s) ==
    LET child_return == XQueryPointer(s).child
        ws == CurrentWorkspace(s)
        window == FindRecord(ws, child_return)
        restored == [window EXCEPT !.is_fullscreen = FALSE,
                                   !.x = window.pre_fullscreen_x,
                                   !.y = window.pre_fullscreen_y,
                                   !.width = window.pre_fullscreen_width,
                                   !.height = window.pre_fullscreen_height]
        r1 == XSetWindowBorderWidth(UpdateRecord(s, child_return, restored),
                                    child_return, window.pre_fullscreen_border_width)
        attrs == XGetWindowAttributes(s, child_return)
        full == [window EXCEPT !.is_fullscreen = TRUE,
                               !.pre_fullscreen_x = attrs.x,
                               !.pre_fullscreen_y = attrs.y,
                               !.pre_fullscreen_width = attrs.width,
                               !.pre_fullscreen_height = attrs.height,
                               !.x = MonitorX, !.y = MonitorY,
                               !.width = MonitorWidth, !.height = MonitorHeight]
    IN IF child_return = 0 \/ child_return = Root \/ ~HasRecord(ws, child_return)
       THEN s
       ELSE IF window.is_fullscreen
       THEN (IF window.is_floating
             THEN XMoveResizeWindow(r1, child_return, restored.x, restored.y,
                                    restored.width, restored.height)
             ELSE relayout(r1))
       ELSE XMoveResizeWindow(
                XSetWindowBorderWidth(UpdateRecord(s, child_return, full), child_return, 0),
                child_return, full.x, full.y, full.width, full.height)

toggle_fullscreen(s) ==
    LET child_return == XQueryPointer(s).child
        ws == CurrentWorkspace(s)
        window == FindRecord(ws, child_return)
        restored == [window EXCEPT !.is_fullscreen = FALSE,
                                   !.x = window.pre_fullscreen_x,
                                   !.y = window.pre_fullscreen_y,
                                   !.width = window.pre_fullscreen_width,
                                   !.height = window.pre_fullscreen_height]
        r1 == XSetWindowBorderWidth(UpdateRecord(s, child_return, restored),
                                    child_return, window.pre_fullscreen_border_width)
        attrs == XGetWindowAttributes(s, child_return)
        full == [window EXCEPT !.is_fullscreen = TRUE,
                               !.pre_fullscreen_x = attrs.x,
                               !.pre_fullscreen_y = attrs.y,
                               !.pre_fullscreen_width = attrs.width,
                               !.pre_fullscreen_height = attrs.height,
                               !.pre_fullscreen_border_width = attrs.border_width,
                               !.x = MonitorX, !.y = MonitorY,
                               !.width = MonitorWidth, !.height = MonitorHeight]
    IN IF child_return = 0 \/ child_return = Root \/ ~HasRecord(ws, child_return)
       THEN s
       ELSE IF window.is_fullscreen
       THEN (IF window.is_floating
             THEN XMoveResizeWindow(r1, child_return, restored.x, restored.y,
                                    restored.width, restored.height)
             ELSE relayout(r1))
       ELSE XMoveResizeWindow(
                XSetWindowBorderWidth(UpdateRecord(s, child_return, full), child_return, 0),
                child_return, full.x, full.y, full.width, full.height)

(***************************************************************************)
(* WindowManager::close_focused_window                                     *)
(***************************************************************************)
\* the client lists WM_DELETE_WINDOW in WM_PROTOCOLS: the first client does
SupportsDelete(s, w) == XExists(s, w) /\ w = Root + 1

\* the last element of a sequence as an Option
LastOf(seq) == IF seq = <<>> THEN None ELSE Some(seq[Len(seq)])

\* (focused_id, is_floating) of the window to close
CloseTarget(s) ==
    LET ws == CurrentWorkspace(s)
        focused_win == s.server.focus
        net_active_win == s.server.net_active_window
        by_id(id) == IF HasRecord(ws, id)
                     THEN Some([id |-> id, is_floating |-> FindRecord(ws, id).is_floating])
                     ELSE None
        first == IF focused_win # 0 /\ focused_win # Root THEN by_id(focused_win)
                 ELSE IF net_active_win # 0 /\ net_active_win # Root
                 THEN by_id(net_active_win)
                 ELSE None
        ws_focused == Workspace_get_focused_window(ws)
    IN IF IsSome(first) THEN Unwrap(first)
       ELSE IF IsSome(ws_focused)
       THEN [id |-> Unwrap(ws_focused).id, is_floating |-> Unwrap(ws_focused).is_floating]
       ELSE IF IsSome(s.layout.focused_window)
       THEN [id |-> Unwrap(s.layout.focused_window), is_floating |-> FALSE]
       ELSE [id |-> 0, is_floating |-> FALSE]

\* the window that receives the focus after the close, computed before it
CloseNext(s, focused_id, is_floating) ==
    LET ws == CurrentWorkspace(s)
        next_floating == LastOf(SelectSeq(ws.windows,
              LAMBDA w : w.is_floating /\ ~w.is_dock /\ w.id # focused_id))
        last_tiled == LastOf(SelectSeq(ws.windows,
              LAMBDA w : ~w.is_floating /\ ~w.is_dock))
        last_any == LastOf(SelectSeq(ws.windows, LAMBDA w : ~w.is_dock))
    IN IF focused_id = 0 THEN None
       ELSE IF is_floating
       THEN (IF IsSome(next_floating) THEN next_floating ELSE last_tiled)
       ELSE last_any

\* the ClientMessage event of the polite close
DeleteMessage(w) ==
    [type |-> "ClientMessage", window |-> w, message_type |-> "WM_PROTOCOLS",
     format |-> 32, data0 |-> "WM_DELETE_WINDOW"]

\* close_focused_window that destroys the window whatever its protocols are
MutantCloseDestroys(s) ==
    LET target == CloseTarget(s)
        focused_window == target.id
        ws == CurrentWorkspace(s)
        next_window == CloseNext(s, focused_window, target.is_floating)
        s1 == XDestroyWindow(s, focused_window)
        next_id == Unwrap(next_window).id
    IN IF focused_window = 0 THEN s
       ELSE IF HasRecord(ws, focused_window) /\ FindRecord(ws, focused_window).is_dock
       THEN s
       ELSE IF IsSome(next_window)
       THEN PaintBorders(set_active_window(focus_window(s1, next_id), next_id), next_id)
       ELSE s1

close_focused_window(s) ==
    LET target == CloseTarget(s)
        focused_window == target.id
        ws == CurrentWorkspace(s)
        next_window == CloseNext(s, focused_window, target.is_floating)
        \* XGetWMProtocols fails on a window that is gone
        s1 == IF SupportsDelete(s, focused_window)
              THEN XSendEvent(s, focused_window, DeleteMessage(focused_window))
              ELSE XDestroyWindow(s, focused_window)
        next_id == Unwrap(next_window).id
    IN IF focused_window = 0 THEN s
       ELSE IF HasRecord(ws, focused_window) /\ FindRecord(ws, focused_window).is_dock
       THEN s
       ELSE IF IsSome(next_window)
       THEN PaintBorders(set_active_window(focus_window(s1, next_id), next_id), next_id)
       ELSE s1

(***************************************************************************)
(* WindowManager::handle_map_request                                       *)
(***************************************************************************)
\* handle_map_request that paints nothing after adding the window
MutantMapRequestNoRepaint(s, window_id) ==
    LET attrs == XGetWindowAttributes(s, window_id)
        is_dock == HasDockType(s, window_id)
        window == Window_new(window_id, attrs.x, attrs.y, attrs.width, attrs.height)
        dock == [window EXCEPT !.is_floating = TRUE, !.is_dock = TRUE]
        d1 == XSetWindowBorderWidth(s, window_id, 0)
        d2 == [d1 EXCEPT !.workspaces = [i \in WorkspaceIndexes |->
                                            Workspace_add_window(d1.workspaces[i], dock)]]
        d3 == update_dock_space(XMapWindow(d2, window_id), dock.y, dock.height)
        c1 == IF is_dock THEN s ELSE XGrabButton(s, window_id)
        c2 == XSetWindowBorderWidth(XMapWindow(c1, window_id), window_id, border_width)
        c3 == [c2 EXCEPT !.workspaces[c2.current_workspace] =
                            Workspace_add_window(@, window)]
        c4 == add_window(c3, window_id)
    IN IF is_dock THEN d3
       ELSE set_active_window(c4, window_id)

handle_map_request(s, window_id) ==
    LET attrs == XGetWindowAttributes(s, window_id)
        is_dock == HasDockType(s, window_id)
        window == Window_new(window_id, attrs.x, attrs.y, attrs.width, attrs.height)
        dock == [window EXCEPT !.is_floating = TRUE, !.is_dock = TRUE]
        d1 == XSetWindowBorderWidth(s, window_id, 0)
        d2 == [d1 EXCEPT !.workspaces = [i \in WorkspaceIndexes |->
                                            Workspace_add_window(d1.workspaces[i], dock)]]
        d3 == update_dock_space(XMapWindow(d2, window_id), dock.y, dock.height)
        c1 == IF is_dock THEN s ELSE XGrabButton(s, window_id)
        c2 == XSetWindowBorderWidth(XMapWindow(c1, window_id), window_id, border_width)
        c3 == [c2 EXCEPT !.workspaces[c2.current_workspace] =
                            Workspace_add_window(@, window)]
        c4 == add_window(c3, window_id)
    IN IF is_dock THEN d3
       ELSE set_active_window(PaintBorders(c4, window_id), window_id)

(***************************************************************************)
(* WindowManager::handle_unmap_notify, handle_destroy_notify               *)
(***************************************************************************)
handle_unmap_notify(s, window) ==
    remove_window([s EXCEPT !.workspaces[s.current_workspace] =
                              Workspace_remove_window(@, window)],
                  window)

handle_destroy_notify(s, window) ==
    remove_window([s EXCEPT !.workspaces[s.current_workspace] =
                              Workspace_remove_window(@, window)],
                  window)

(***************************************************************************)
(* WindowManager::handle_enter_notify                                      *)
(***************************************************************************)
handle_enter_notify(s, window) ==
    IF /\ ~s.gesture.dragging
       /\ ~s.gesture.resizing
       /\ window # 0
       /\ window # Root
       /\ focus_follows_mouse
    THEN set_active_window(focus_window(PaintBorders(s, window), window), window)
    ELSE s

(***************************************************************************)
(* WindowManager::switch_to_workspace                                      *)
(***************************************************************************)
RECURSIVE MutantUnmapAllWithDocks(_, _, _)
\* the loop over the outgoing workspace without the test of is_dock
MutantUnmapAllWithDocks(s, windows, i) ==
    IF i > Len(windows) THEN s
    ELSE MutantUnmapAllWithDocks(XUnmapWindow(s, windows[i].id), windows, i + 1)

RECURSIVE UnmapAll(_, _, _)
\* the loop over the outgoing workspace, from record i on
UnmapAll(s, windows, i) ==
    IF i > Len(windows) THEN s
    ELSE UnmapAll(IF windows[i].is_dock THEN s ELSE XUnmapWindow(s, windows[i].id),
                  windows, i + 1)

RECURSIVE ShowAll(_, _, _)
\* the loop over the incoming workspace, from record i on
ShowAll(s, windows, i) ==
    IF i > Len(windows) THEN s
    ELSE LET window == windows[i]
             s1 == IF window.is_dock THEN s
                   ELSE XGrabButton(
                          XSetWindowBorderWidth(XMapWindow(s, window.id),
                                                window.id, border_width),
                          window.id)
             s2 == IF ~window.is_dock /\ window.is_floating
                   THEN XMoveResizeWindow(s1, window.id, window.x, window.y,
                                          window.width, window.height)
                   ELSE s1
             s3 == IF ~window.is_dock /\ ~window.is_floating
                   THEN add_window(s2, window.id)
                   ELSE s2
         IN ShowAll(s3, windows, i + 1)

\* switch_to_workspace without the test for the current index
MutantSwitchToCurrent(s, index) ==
    LET s1 == UnmapAll(s, CurrentWorkspace(s).windows, 1)
        s2 == clear_windows(update_current_desktop(
                  [s1 EXCEPT !.current_workspace = index]))
        new == s2.workspaces[index]
        s3 == ShowAll(s2, new.windows, 1)
        focused == Workspace_get_focused_window(new)
        s4 == IF IsSome(focused) /\ ~Unwrap(focused).is_dock
              THEN set_active_window(focus_window(s3, Unwrap(focused).id),
                                     Unwrap(focused).id)
              ELSE s3
    IN IF index >= NumWorkspaces
       THEN s
       ELSE relayout(s4)

switch_to_workspace(s, index) ==
    LET s1 == UnmapAll(s, CurrentWorkspace(s).windows, 1)
        s2 == clear_windows(update_current_desktop(
                  [s1 EXCEPT !.current_workspace = index]))
        new == s2.workspaces[index]
        s3 == ShowAll(s2, new.windows, 1)
        focused == Workspace_get_focused_window(new)
        s4 == IF IsSome(focused) /\ ~Unwrap(focused).is_dock
              THEN set_active_window(focus_window(s3, Unwrap(focused).id),
                                     Unwrap(focused).id)
              ELSE s3
    IN IF index >= NumWorkspaces \/ index = s.current_workspace
       THEN s
       ELSE relayout(s4)

(***************************************************************************)
(* Move and resize gestures                                                *)
(***************************************************************************)
start_window_drag(s, window) ==
    LET p == XQueryPointer(s)
        s1 == [s EXCEPT !.gesture.dragging = TRUE,
                        !.gesture.drag_start_x = p.root_x,
                        !.gesture.drag_start_y = p.root_y,
                        !.gesture.dragged_window = Some(window)]
    IN set_active_window(focus_window(s1, window), window)

end_window_drag(s) ==
    LET window == Unwrap(s.gesture.dragged_window)
        ws == CurrentWorkspace(s)
        win == FindRecord(ws, window)
        s1 == IF IsSome(s.gesture.dragged_window) /\ HasRecord(ws, window)
                 /\ win.is_floating
              THEN UpdateRecord([s EXCEPT !.gesture.drag_start_x = 0,
                                          !.gesture.drag_start_y = 0],
                                window,
                                [win EXCEPT !.pre_float_x = win.x,
                                            !.pre_float_y = win.y])
              ELSE s
    IN [s1 EXCEPT !.gesture.dragging = FALSE, !.gesture.dragged_window = None]

start_window_resize(s, window) ==
    LET p == XQueryPointer(s)
        ws == CurrentWorkspace(s)
        s1 == [s EXCEPT !.gesture.resizing = TRUE]
        s2 == [s1 EXCEPT !.gesture.resize_start_width = FindRecord(ws, window).width,
                         !.gesture.resize_start_height = FindRecord(ws, window).height,
                         !.gesture.drag_start_x = p.root_x,
                         !.gesture.drag_start_y = p.root_y,
                         !.gesture.resized_window = Some(window)]
    IN IF HasRecord(ws, window)
       THEN set_active_window(focus_window(s2, window), window)
       ELSE s1

end_window_resize(s) ==
    LET window == Unwrap(s.gesture.resized_window)
        ws == CurrentWorkspace(s)
        win == FindRecord(ws, window)
        s1 == IF IsSome(s.gesture.resized_window) /\ HasRecord(ws, window)
                 /\ win.is_floating
              THEN UpdateRecord(s, window,
                                [win EXCEPT !.pre_float_width = win.width,
                                            !.pre_float_height = win.height])
              ELSE s
    IN [s1 EXCEPT !.gesture.resizing = FALSE, !.gesture.resized_window = None]

\* the ButtonRelease arm of the dispatch in run
handle_button_release(s) ==
    IF s.gesture.dragging THEN end_window_drag(s)
    ELSE IF s.gesture.resizing THEN end_window_resize(s)
    ELSE s

\* (v as u32).max(100) of an i32 v.  A negative v wraps to v + 2^32, which is
\* beyond the integers TLC holds: the largest one stands for it
as_u32_max_100(v) == IF v < 0 THEN v + 2147483647 ELSE Max(v, 100)

(***************************************************************************)
(* WindowManager::handle_motion_notify                                     *)
(***************************************************************************)
handle_motion_notify(s) ==
    LET p == XQueryPointer(s)
        child_return == p.child
        ws == CurrentWorkspace(s)
        dx == p.root_x - s.gesture.drag_start_x
        dy == p.root_y - s.gesture.drag_start_y
        dragged == Unwrap(s.gesture.dragged_window)
        dwin == FindRecord(ws, dragged)
        moved == [dwin EXCEPT !.x = dwin.pre_float_x + dx, !.y = dwin.pre_float_y + dy]
        resized == Unwrap(s.gesture.resized_window)
        rwin == FindRecord(ws, resized)
        grown == [rwin EXCEPT
                    !.width = as_u32_max_100(s.gesture.resize_start_width + dx),
                    !.height = as_u32_max_100(s.gesture.resize_start_height + dy)]
    IN IF s.gesture.dragging
       THEN (IF ~IsSome(s.gesture.dragged_window) THEN s
             ELSE IF HasRecord(ws, dragged) /\ dwin.is_floating
             THEN XMoveWindow(UpdateRecord(s, dragged, moved), dragged, moved.x, moved.y)
             ELSE IF child_return # dragged /\ child_return # 0 /\ child_return # Root
             THEN relayout(swap_windows(s, dragged, child_return))
             ELSE s)
       ELSE IF s.gesture.resizing
       THEN (IF IsSome(s.gesture.resized_window) /\ HasRecord(ws, resized)
                /\ rwin.is_floating
             THEN XResizeWindow(UpdateRecord(s, resized, grown), resized,
                                grown.width, grown.height)
             ELSE s)
       ELSE IF child_return # 0 /\ child_return # Root
       THEN focus_window(s, child_return)
       ELSE s

(***************************************************************************)
(* WindowManager::handle_button_press, handle_keypress,                    *)
(* handle_client_message                                                   *)
(***************************************************************************)
\* every press the manager receives carries the global modifier: with
\* focus-follows-mouse enabled the only button grabs are the modified ones
handle_button_press(s, window, button, modifier) ==
    IF modifier
    THEN (IF button = 1 THEN start_window_drag(s, window)
          ELSE IF button = 3 THEN start_window_resize(s, window)
          ELSE s)
    ELSE IF ~focus_follows_mouse /\ window # 0 /\ window # Root
    THEN set_active_window(focus_window(PaintBorders(s, window), window), window)
    ELSE s

\* the action of the bind whose key matched
handle_keypress(s, command) ==
    CASE command.name = "Exit" -> [s EXCEPT !.running = FALSE]
      [] command.name = "Close" -> close_focused_window(s)
      [] command.name = "Workspace" -> switch_to_workspace(s, command.index)
      [] command.name = "ToggleFloat" -> toggle_float(s)
      [] command.name = "ToggleFullscreen" -> toggle_fullscreen(s)
      [] OTHER -> s

handle_client_message(s, workspace_index) ==
    IF workspace_index < NumWorkspaces
    THEN switch_to_workspace(s, workspace_index)
    ELSE s

(***************************************************************************)
(* The state machine                                                       *)
(***************************************************************************)
\* where the pointer can be
PointerPositions == {<<100, 100>>, <<140, 130>>}

\* the commands of the default binds; one workspace index is out of range
Commands ==
    {[name |-> n] : n \in {"Exit", "Close", "ToggleFloat", "ToggleFullscreen"}}
    \cup {[name |-> "Workspace", index |-> i] : i \in 0..NumWorkspaces}

\* the manager runs: no function is under test on its own
NoProbe == [kind |-> "none"]

State ==
    [workspaces |-> workspaces, current_workspace |-> current_workspace,
     layout |-> layout, gesture |-> gesture, running |-> running,
     server |-> server, queue |-> queue]

Commit(s) ==
    /\ workspaces' = s.workspaces
    /\ current_workspace' = s.current_workspace
    /\ layout' = s.layout
    /\ gesture' = s.gesture
    /\ running' = s.running
    /\ server' = s.server
    /\ queue' = s.queue
    /\ probe' = probe

\* WindowManager::new and the server before any client is managed
BootState ==
    [workspaces |-> [i \in WorkspaceIndexes |-> Workspace_new(i)],
     current_workspace |-> 0,
     layout |-> [windows |-> <<>>, focused_window |-> None,
                 dock_height |-> 0, dock_position |-> "None"],
     gesture |-> [dragging |-> FALSE, drag_start_x |-> 0, drag_start_y |-> 0,
                  dragged_window |-> None, resizing |-> FALSE,
                  resize_start_width |-> 0, resize_start_height |-> 0,
                  resized_window |-> None],
     running |-> TRUE,
     server |-> [exists |-> [w \in AllWindows |-> TRUE],
                 mapped |-> [w \in AllWindows |-> FALSE],
                 window_type |-> [w \in AllWindows |->
                                    IF w \in Docks THEN "dock" ELSE "normal"],
                 geom |-> [w \in AllWindows |-> InitialGeometry(w)],
                 border |-> [w \in AllWindows |-> 0],
                 color |-> [w \in AllWindows |-> "unset"],
                 select |-> [w \in AllWindows |-> FALSE],
                 grab |-> [w \in AllWindows |-> FALSE],
                 focus |-> PointerRoot,
                 net_active_window |-> 0,
                 net_current_desktop |-> 0,
                 pointer |-> [child |-> 0, x |-> 100, y |-> 100],
                 buttons |-> {},
                 grab_window |-> 0,
                 sent |-> <<>>],
     queue |-> <<>>]

\* the variables hold state s, and no event has been produced yet
Started(s) ==
    /\ workspaces = s.workspaces
    /\ current_workspace = s.current_workspace
    /\ layout = s.layout
    /\ gesture = s.gesture
    /\ running = s.running
    /\ server = s.server
    /\ queue = s.queue
    /\ events = 0

ManagerInit == Started(BootState)

Init == ManagerInit /\ probe = NoProbe

Enqueue(s, evs) == [s EXCEPT !.queue = @ \o evs]

\* the environment may make one more request
CanRequest == Len(queue) < MaxQueue /\ events < MaxEvents /\ events' = events + 1

----------------------------------------------------------------------------
(* What clients and the user do: each puts events in the manager's queue.  *)

\* a client maps its unmapped top-level window: the server redirects the
\* request to the manager
ClientMapWindow(w) ==
    /\ CanRequest
    /\ server.exists[w] /\ ~server.mapped[w]
    \* a client does not repeat a request the manager has yet to answer
    /\ ~\E i \in 1..Len(queue) : queue[i] = [type |-> "MapRequest", window |-> w]
    /\ Commit(Enqueue(State, <<[type |-> "MapRequest", window |-> w]>>))

\* a client withdraws its window
ClientUnmapWindow(w) ==
    /\ CanRequest
    /\ server.exists[w] /\ server.mapped[w]
    /\ Commit(Unmapped(State, w, "client"))

\* a client destroys its window (for one, in answer to WM_DELETE_WINDOW)
ClientDestroyWindow(w) ==
    /\ CanRequest
    /\ server.exists[w]
    /\ Commit(Destroyed(State, w))

UserKeyPress(command) ==
    /\ CanRequest
    /\ Commit(Enqueue(State, <<[type |-> "KeyPress", command |-> command]>>))

\* the pointer moves into a mapped window or onto the root.  EnterNotify is
\* sent for a window the manager selected it on; MotionNotify reaches the
\* root unless the client keeps it, and always during a button grab
UserMovePointer(child, pos, propagate) ==
    /\ CanRequest
    /\ IF child = 0 THEN TRUE ELSE server.exists[child] /\ server.mapped[child]
    \* a motion inside one window is seen only when it reaches the root
    /\ IF propagate THEN TRUE
       ELSE child # XQueryPointer(State).child
    \* where the pointer is matters to a gesture only
    /\ IF server.buttons = {} THEN pos = <<server.pointer.x, server.pointer.y>> ELSE TRUE
    /\ IF propagate THEN TRUE ELSE server.grab_window = 0
    /\ LET s1 == [State EXCEPT !.server.pointer =
                                  [child |-> child, x |-> pos[1], y |-> pos[2]]]
           enter == IF child # 0 /\ child # XQueryPointer(State).child
                       /\ server.select[child]
                    THEN <<[type |-> "EnterNotify", window |-> child]>>
                    ELSE <<>>
           motion == IF propagate THEN <<[type |-> "MotionNotify"]>> ELSE <<>>
       IN Commit(Enqueue(s1, enter \o motion))

\* a press of button 1 or 3 with the modifier held, over a window that
\* carries the manager's button grab, or during a grab already active
UserButtonPress(button) ==
    /\ CanRequest
    /\ button \notin server.buttons
    /\ LET child == XQueryPointer(State).child
           target == IF server.grab_window # 0 THEN server.grab_window ELSE child
       IN /\ target # 0
          /\ server.grab[target]
          /\ Commit(Enqueue([State EXCEPT !.server.buttons = @ \cup {button},
                                          !.server.grab_window = target],
                            <<[type |-> "ButtonPress", window |-> target,
                               button |-> button, modifier |-> TRUE]>>))

UserButtonRelease(button) ==
    /\ CanRequest
    /\ button \in server.buttons
    /\ Commit(Enqueue([State EXCEPT !.server.buttons = @ \ {button},
                                    !.server.grab_window =
                                        IF server.buttons = {button} THEN 0 ELSE @],
                      <<[type |-> "ButtonRelease"]>>))

\* a pager asks for another desktop with a _NET_CURRENT_DESKTOP message
ClientMessage(index) ==
    /\ CanRequest
    /\ Commit(Enqueue(State, <<[type |-> "ClientMessage", index |-> index]>>))

----------------------------------------------------------------------------
(* WindowManager::run: one iteration takes the head of the queue and       *)
(* dispatches on its type.                                                 *)

Dequeued == [State EXCEPT !.queue = Tail(queue), !.server.sent = <<>>]

\* a loop that goes on taking events after the flag is cleared
MutantReadyWhenStopped(type) ==
    queue # <<>> /\ Head(queue).type = type /\ UNCHANGED events

Ready(type) ==
    running /\ queue # <<>> /\ Head(queue).type = type /\ UNCHANGED events

KeyPress == Ready("KeyPress") /\ Commit(handle_keypress(Dequeued, Head(queue).command))

MapRequest == Ready("MapRequest") /\ Commit(handle_map_request(Dequeued, Head(queue).window))

UnmapNotify == Ready("UnmapNotify") /\ Commit(handle_unmap_notify(Dequeued, Head(queue).window))

DestroyNotify ==
    Ready("DestroyNotify") /\ Commit(handle_destroy_notify(Dequeued, Head(queue).window))

MotionNotify == Ready("MotionNotify") /\ Commit(handle_motion_notify(Dequeued))

ButtonPress ==
    /\ Ready("ButtonPress")
    /\ Commit(handle_button_press(Dequeued, Head(queue).window, Head(queue).button,
                                  Head(queue).modifier))

ButtonRelease == Ready("ButtonRelease") /\ Commit(handle_button_release(Dequeued))

EnterNotify == Ready("EnterNotify") /\ Commit(handle_enter_notify(Dequeued, Head(queue).window))

ClientMessageEvent ==
    Ready("ClientMessage") /\ Commit(handle_client_message(Dequeued, Head(queue).index))

Next ==
    \/ \E w \in AllWindows : ClientMapWindow(w)
    \/ \E w \in AllWindows : ClientUnmapWindow(w)
    \/ \E w \in AllWindows : ClientDestroyWindow(w)
    \/ \E c \in Commands : UserKeyPress(c)
    \/ \E child \in AllWindows \cup {0}, pos \in PointerPositions, propagate \in BOOLEAN :
          UserMovePointer(child, pos, propagate)
    \/ \E b \in {1, 3} : UserButtonPress(b)
    \/ \E b \in {1, 3} : UserButtonRelease(b)
    \/ \E i \in 0..NumWorkspaces : ClientMessage(i)
    \/ KeyPress
    \/ MapRequest
    \/ UnmapNotify
    \/ DestroyNotify
    \/ MotionNotify
    \/ ButtonPress
    \/ ButtonRelease
    \/ EnterNotify
    \/ ClientMessageEvent

Spec == Init /\ [][Next]_vars

\* the manager with one client mapped and then floated by the ToggleFloat
\* bind, the queue empty again: where the gestures on a floating window start
FloatingInit ==
    /\ \E w \in Clients :
          Started(toggle_float(handle_map_request(BootState, w)))
    /\ probe = NoProbe

FloatingSpec == FloatingInit /\ [][Next]_vars

----------------------------------------------------------------------------
(* The centring of toggle_float on its own: a monitor, a configured        *)
(* floating size and a build are chosen, and the position is computed.     *)

CentreMonitors ==
    {[x_org |-> 0, y_org |-> 0, width |-> 1920, height |-> 1080],
     [x_org |-> 0, y_org |-> 0, width |-> 1024, height |-> 768],
     [x_org |-> 0, y_org |-> 0, width |-> 800, height |-> 600]}

CentreWidths == {640, 800, 1024, 1921}

CentreHeights == {480, 600, 769, 1200}

CentreInit ==
    /\ ManagerInit
    /\ \E monitor \in CentreMonitors, w \in CentreWidths, h \in CentreHeights,
          overflow_checks \in BOOLEAN :
          probe = [kind |-> "centre", monitor |-> monitor,
                   float_width |-> w, float_height |-> h,
                   overflow_checks |-> overflow_checks,
                   done |-> FALSE, aborted |-> FALSE, new_x |-> 0, new_y |-> 0]

CentreCompute ==
    /\ ~probe.done
    /\ LET m == probe.monitor
           new_x == centre_origin(m.x_org, m.width, probe.float_width, probe.overflow_checks)
           new_y == centre_origin(m.y_org, m.height, probe.float_height, probe.overflow_checks)
       IN probe' = [probe EXCEPT
                       !.done = TRUE,
                       !.aborted = ~IsSome(new_x) \/ ~IsSome(new_y),
                       !.new_x = IF IsSome(new_x) THEN Unwrap(new_x) ELSE 0,
                       !.new_y = IF IsSome(new_y) THEN Unwrap(new_y) ELSE 0]
    /\ UNCHANGED <<workspaces, current_workspace, layout, gesture, running, server,
                   queue, events>>

CentreNext == CentreCompute

CentreSpec == CentreInit /\ [][CentreNext]_vars

(* The reload of the configuration.  The watcher's thread sends SIGUSR1    *)
(* to the process for every modification of the configuration file; the    *)
(* signal handler interrupts the control loop between any two of its       *)
(* steps and sets SHOULD_RELOAD_CONFIG; the loop tests the flag, reloads,  *)
(* clears the flag and takes the next event.                               *)

\* the modifications of the configuration file in one run
MaxModifications == 3

\* modified: modifications made; delivered: signals delivered; config: the
\* modification the loaded configuration holds; seen: the signals that had
\* been delivered when the configuration was loaded last
ReloadInit ==
    /\ ManagerInit
    /\ probe = [kind |-> "reload", SHOULD_RELOAD_CONFIG |-> FALSE, pc |-> "test",
                modified |-> 0, delivered |-> 0, config |-> 0, seen |-> 0]

ReloadUnchanged ==
    UNCHANGED <<workspaces, current_workspace, layout, gesture, running, server,
                queue, events>>

\* the file is written; the watcher's thread will send one signal for it
ConfigModified ==
    /\ probe.modified < MaxModifications
    /\ probe' = [probe EXCEPT !.modified = @ + 1]
    /\ ReloadUnchanged

\* handle_sigusr1
handle_sigusr1 ==
    /\ probe.delivered < probe.modified
    /\ probe' = [probe EXCEPT !.delivered = @ + 1, !.SHOULD_RELOAD_CONFIG = TRUE]
    /\ ReloadUnchanged

\* run: if SHOULD_RELOAD_CONFIG.load(SeqCst)
LoopTest ==
    /\ probe.pc = "test"
    /\ probe' = [probe EXCEPT !.pc = IF probe.SHOULD_RELOAD_CONFIG
                                     THEN "reload" ELSE "next_event"]
    /\ ReloadUnchanged

\* run: self.reload_config(), which reads the file with Config::load
reload_config ==
    /\ probe.pc = "reload"
    /\ probe' = [probe EXCEPT !.pc = "clear",
                              !.config = probe.modified,
                              !.seen = probe.delivered]
    /\ ReloadUnchanged

\* run: SHOULD_RELOAD_CONFIG.store(false, SeqCst)
LoopClear ==
    /\ probe.pc = "clear"
    /\ probe' = [probe EXCEPT !.pc = "next_event", !.SHOULD_RELOAD_CONFIG = FALSE]
    /\ ReloadUnchanged

\* run: XNextEvent returns an event, it is dispatched, and the loop goes round
LoopNextEvent ==
    /\ probe.pc = "next_event"
    /\ probe' = [probe EXCEPT !.pc = "test"]
    /\ ReloadUnchanged

ControlLoop == LoopTest \/ reload_config \/ LoopClear \/ LoopNextEvent

ReloadNext == ConfigModified \/ handle_sigusr1 \/ ControlLoop

\* the loop keeps running (events keep arriving), and a signal that was
\* sent is delivered
ReloadSpec ==
    /\ ReloadInit /\ [][ReloadNext]_vars
    /\ WF_vars(ControlLoop) /\ WF_vars(handle_sigusr1)

\* the strip a second dock asks for, along the bottom edge of the monitor
BottomStrip ==
    [x |-> 0, y |-> MonitorHeight - 30, width |-> MonitorWidth, height |-> 30]

\* two docks: the one of Docks along the top edge, and the last window of
\* Clients, which here advertises the dock type too, along the bottom edge.
\* Windows are mapped, unmapped and destroyed, and the manager follows
TwoDockInit ==
    /\ Started([BootState EXCEPT
                   !.server.window_type[Root + NumClients] = "dock",
                   !.server.geom[Root + NumClients] = BottomStrip])
    /\ probe = NoProbe

TwoDockNext ==
    \/ \E w \in AllWindows : ClientMapWindow(w)
    \/ \E w \in AllWindows : ClientUnmapWindow(w)
    \/ \E w \in AllWindows : ClientDestroyWindow(w)
    \/ MapRequest
    \/ UnmapNotify
    \/ DestroyNotify

TwoDockSpec == TwoDockInit /\ [][TwoDockNext]_vars

\* the manager configured with focus_follows_mouse = false
ClickToFocusInit ==
    /\ ManagerInit
    /\ probe = [kind |-> "config", focus_follows_mouse |-> FALSE]

ClickToFocusSpec == ClickToFocusInit /\ [][Next]_vars

----------------------------------------------------------------------------
(* The notification surface.  The manager started from an auto-generated   *)
(* configuration shows one notification, a window of its own that selects  *)
(* ButtonPress, so that every press on it reaches the manager whatever the *)
(* modifiers.  Clients map their windows meanwhile.                        *)

\* the window of the notification
Notification == 6

\* NotificationManager::handle_button_press: the notification of that
\* window is removed from the list, and dropped
NotificationManager_handle_button_press(notifications, window) ==
    IF \E i \in 1..Len(notifications) : notifications[i] = window
    THEN LET index == CHOOSE i \in 1..Len(notifications) :
                         /\ notifications[i] = window
                         /\ \A j \in 1..(i - 1) : notifications[j] # window
         IN SubSeq(notifications, 1, index - 1)
            \o SubSeq(notifications, index + 1, Len(notifications))
    ELSE notifications

contains_window(notifications, window) ==
    \E i \in 1..Len(notifications) : notifications[i] = window

\* handle_button_press with the notification surface: the surface takes the
\* press first, and the handler goes on with the notifications that remain
handle_button_press_after_surface(s, notifications, window, button, modifier) ==
    LET remaining == NotificationManager_handle_button_press(notifications, window)
    IN IF ~modifier /\ contains_window(remaining, window)
       THEN s
       ELSE handle_button_press(s, window, button, modifier)

NotificationInit ==
    /\ ManagerInit
    /\ probe = [kind |-> "notifications", notifications |-> <<Notification>>]

\* the user presses a button on the notification, with the modifier held or
\* not, while the manager waits for an event, and the manager handles it
NotificationPress(button, modifier) ==
    /\ CanRequest
    /\ running /\ queue = <<>>
    /\ server.buttons = {}
    /\ contains_window(probe.notifications, Notification)
    /\ probe' = [probe EXCEPT !.notifications =
                    NotificationManager_handle_button_press(@, Notification)]
    /\ LET s == handle_button_press_after_surface(
                    [State EXCEPT !.server.buttons = {button},
                                  !.server.grab_window = Notification,
                                  !.server.sent = <<>>],
                    probe.notifications, Notification, button, modifier)
       IN /\ workspaces' = s.workspaces
          /\ current_workspace' = s.current_workspace
          /\ layout' = s.layout
          /\ gesture' = s.gesture
          /\ running' = s.running
          /\ server' = s.server
          /\ queue' = s.queue

NotificationNext ==
    \/ \E w \in AllWindows : ClientMapWindow(w)
    \/ MapRequest
    \/ \E button \in {1, 3}, modifier \in BOOLEAN : NotificationPress(button, modifier)
    \/ \E b \in {1, 3} : UserButtonRelease(b)
    \/ ButtonRelease

NotificationSpec == NotificationInit /\ [][NotificationNext]_vars

----------------------------------------------------------------------------
(* MasterStackLayout::relayout on its own: a monitor, gaps, a dock strut   *)
(* and a number of tiles are chosen, and one relayout computes the tiles.  *)

\* the most tiles a layout is computed for
MaxTiles == 20

LayoutWidths == {200, 201, 1280, 1920}

LayoutHeights == {200, 1080}

LayoutGaps == {0, 1, 8, 32}

\* (dock_position, dock_height) with no dock, a bar on top, a bar below
LayoutDocks == {<<"None", 0>>, <<"Top", 30>>, <<"Bottom", 30>>}

LayoutInit ==
    /\ ManagerInit
    /\ \E n \in 0..MaxTiles, w \in LayoutWidths, h \in LayoutHeights,
          g \in LayoutGaps, d \in LayoutDocks :
          probe = [kind |-> "layout", n |-> n, width |-> w, height |-> h,
                   gaps |-> g, dock_position |-> d[1], dock_height |-> d[2],
                   done |-> FALSE, tiles |-> <<>>]

\* the rectangles one relayout hands to apply_window_geometry, in list order
LayoutTiles(p) ==
    [i \in 1..p.n |-> TileRect(p.n, i - 1, p.width, p.height, p.gaps,
                               p.dock_position, p.dock_height)]

LayoutRelayout ==
    /\ ~probe.done
    /\ probe' = [probe EXCEPT !.done = TRUE, !.tiles = LayoutTiles(probe)]
    /\ UNCHANGED <<workspaces, current_workspace, layout, gesture, running, server,
                   queue, events>>

LayoutNext == LayoutRelayout

LayoutSpec == LayoutInit /\ [][LayoutNext]_vars

----------------------------------------------------------------------------
(* Workspace::add_window on its own: a workspace of a few records with any *)
(* focus index, in range or stale, and a window to add are chosen, and one *)
(* add_window is followed by get_focused_window.                           *)

\* the most records of a workspace before the add
MaxRecords == 3

\* the records a workspace may hold: tiled or floating windows of any id
WorkspaceRecords ==
    {[Window_new(id, 0, 0, 800, 600) EXCEPT !.is_floating = f] :
        id \in AllWindows, f \in BOOLEAN}

WorkspaceLists ==
    UNION {[1..k -> WorkspaceRecords] : k \in 0..MaxRecords}

WorkspaceInit ==
    /\ ManagerInit
    /\ \E windows \in WorkspaceLists, focused \in {None} \cup {Some(i) : i \in 0..MaxRecords},
          window \in WorkspaceRecords :
          probe = [kind |-> "workspace",
                   before |-> [windows |-> windows, focused |-> focused],
                   window |-> window,
                   done |-> FALSE,
                   after |-> [windows |-> windows, focused |-> focused],
                   focused_window |-> None,
                   removed |-> FALSE,
                   after_remove |-> [windows |-> windows, focused |-> focused],
                   focused_after_remove |-> None]

WorkspaceAdd ==
    /\ ~probe.done
    /\ probe' = [probe EXCEPT
                    !.done = TRUE,
                    !.after = Workspace_add_window(probe.before, probe.window),
                    !.focused_window = Workspace_get_focused_window(
                        Workspace_add_window(probe.before, probe.window))]
    /\ UNCHANGED <<workspaces, current_workspace, layout, gesture, running, server,
                   queue, events>>

\* remove_window of the chosen window's id from the chosen workspace,
\* followed by get_focused_window
WorkspaceRemove ==
    /\ ~probe.removed
    /\ probe' = [probe EXCEPT
                    !.removed = TRUE,
                    !.after_remove = Workspace_remove_window(probe.before, probe.window.id),
                    !.focused_after_remove = Workspace_get_focused_window(
                        Workspace_remove_window(probe.before, probe.window.id))]
    /\ UNCHANGED <<workspaces, current_workspace, layout, gesture, running, server,
                   queue, events>>

WorkspaceNext == WorkspaceAdd \/ WorkspaceRemove

WorkspaceSpec == WorkspaceInit /\ [][WorkspaceNext]_vars

\* a workspace from Workspace::new on, through any adds and removes
HistoryInit ==
    /\ ManagerInit
    /\ probe = [kind |-> "history", ws |-> Workspace_new(0)]

HistoryAdd(window) ==
    /\ Len(probe.ws.windows) < MaxRecords
    /\ probe' = [probe EXCEPT !.ws = Workspace_add_window(@, window)]
    /\ UNCHANGED <<workspaces, current_workspace, layout, gesture, running, server,
                   queue, events>>

HistoryRemove(id) ==
    /\ probe' = [probe EXCEPT !.ws = Workspace_remove_window(@, id)]
    /\ UNCHANGED <<workspaces, current_workspace, layout, gesture, running, server,
                   queue, events>>

HistoryNext ==
    \/ \E window \in WorkspaceRecords : HistoryAdd(window)
    \/ \E id \in AllWindows : HistoryRemove(id)

HistorySpec == HistoryInit /\ [][HistoryNext]_vars

----------------------------------------------------------------------------
(* The size handle_motion_notify computes during a resize gesture, on its  *)
(* own: the dimensions saved at the start of the gesture and a pointer     *)
(* delta are chosen, and one motion computes the new dimensions.           *)

\* the width and height the window had when the gesture started
ResizeStarts == {100, 640, 800}

\* the pointer's way since the gesture started, along one axis of a
\* 1920x1080 monitor
ResizeDeltas == {-1079, -900, -801, -800, -701, -700, -1, 0, 1, 40, 1079}

ResizeInit ==
    /\ ManagerInit
    /\ \E sw \in ResizeStarts, sh \in ResizeStarts, dx \in ResizeDeltas, dy \in ResizeDeltas :
          probe = [kind |-> "resize", resize_start_width |-> sw,
                   resize_start_height |-> sh, dx |-> dx, dy |-> dy,
                   done |-> FALSE, new_width |-> sw, new_height |-> sh]

ResizeMotion ==
    /\ ~probe.done
    /\ probe' = [probe EXCEPT
                    !.done = TRUE,
                    !.new_width = as_u32_max_100(probe.resize_start_width + probe.dx),
                    !.new_height = as_u32_max_100(probe.resize_start_height + probe.dy)]
    /\ UNCHANGED <<workspaces, current_workspace, layout, gesture, running, server,
                   queue, events>>

ResizeNext == ResizeMotion

ResizeSpec == ResizeInit /\ [][ResizeNext]_vars

----------------------------------------------------------------------------
(* The key binds on their own: the keyboard, the passive grabs that        *)
(* setup_key_bindings installs on the root, and the loop of                *)
(* handle_keypress over the binds.  The root window selects no KeyPress,   *)
(* so the manager receives one only through a grab: the press that         *)
(* activates a passive grab (the grabbed key with exactly the grabbed      *)
(* modifiers down), and every press made while that grab is active, that   *)
(* is until the key that activated it is released.                         *)

\* the configured modifier, split at "+": the default and a joined one
ConfigModifiers == {<<"alt">>, <<"ctrl", "shift">>}

\* the modifier bit of one name
ModifierBit(m) ==
    CASE m = "alt" -> "Mod1Mask"
      [] m = "ctrl" -> "ControlMask"
      [] m = "shift" -> "ShiftMask"
      [] m \in {"super", "win"} -> "Mod4Mask"
      [] OTHER -> "Mod1Mask"

\* a mask is the set of its bits
get_modifier(modifier) == {ModifierBit(modifier[i]) : i \in 1..Len(modifier)}

\* the modifier keys of the keyboard
ModifierBits == {"Mod1Mask", "ControlMask", "ShiftMask"}

\* the keys of the keyboard: three bound ones and one that is not
Keys == {"w", "c", "1", "x"}

\* the keysym of a key name; XKeysymToKeycode is one to one on these
get_keysym_for_key(key) == IF key \in {"w", "c", "1"} THEN key ELSE "w"

\* some of the default binds
Binds ==
    <<[key |-> "w", command |-> [name |-> "Exit"]],
      [key |-> "c", command |-> [name |-> "Close"]],
      [key |-> "1", command |-> [name |-> "Workspace", index |-> 0]]>>

\* the loop over the binds: the commands a KeyPress executes, in order
MatchedCommands(keycode, state, modifier) ==
    LET matching == SelectSeq(Binds, LAMBDA bind :
                        /\ (state \cap get_modifier(modifier)) # {}
                        /\ keycode = get_keysym_for_key(bind.key))
    IN [i \in 1..Len(matching) |-> matching[i].command]

\* the key is grabbed on the root
IsGrabbed(k) == \E i \in 1..Len(Binds) : get_keysym_for_key(Binds[i].key) = k

KeyInit ==
    /\ ManagerInit
    /\ \E modifier \in ConfigModifiers :
          probe = [kind |-> "keys", modifier |-> modifier,
                   down_modifiers |-> {}, down_keys |-> {}, grab |-> None,
                   event |-> None, executed |-> <<>>]

KeyUnchanged ==
    UNCHANGED <<workspaces, current_workspace, layout, gesture, running, server,
                queue, events>>

ModifierDown(b) ==
    /\ b \notin probe.down_modifiers
    /\ probe' = [probe EXCEPT !.down_modifiers = @ \cup {b}]
    /\ KeyUnchanged

ModifierUp(b) ==
    /\ b \in probe.down_modifiers
    /\ probe' = [probe EXCEPT !.down_modifiers = @ \ {b}]
    /\ KeyUnchanged

\* a key goes down, and the manager handles the KeyPress if it receives it
KeyDown(k) ==
    /\ k \notin probe.down_keys
    /\ LET activates == /\ ~IsSome(probe.grab) /\ IsGrabbed(k)
                        /\ probe.down_modifiers = get_modifier(probe.modifier)
           received == IsSome(probe.grab) \/ activates
       IN probe' = [probe EXCEPT
                       !.down_keys = @ \cup {k},
                       !.grab = IF activates THEN Some(k) ELSE @,
                       !.event = IF received
                                 THEN Some([keycode |-> k, state |-> probe.down_modifiers])
                                 ELSE None,
                       !.executed = IF received
                                    THEN MatchedCommands(k, probe.down_modifiers,
                                                         probe.modifier)
                                    ELSE <<>>]
    /\ KeyUnchanged

\* the release of the key that activated the grab ends the grab
KeyUp(k) ==
    /\ k \in probe.down_keys
    /\ probe' = [probe EXCEPT !.down_keys = @ \ {k},
                              !.grab = IF @ = Some(k) THEN None ELSE @]
    /\ KeyUnchanged

KeyNext ==
    \/ \E b \in ModifierBits : ModifierDown(b)
    \/ \E b \in ModifierBits : ModifierUp(b)
    \/ \E k \in Keys : KeyDown(k)
    \/ \E k \in Keys : KeyUp(k)

KeySpec == KeyInit /\ [][KeyNext]_vars

----------------------------------------------------------------------------
(* Command::from_str on its own.  A text is a sequence of characters; a    *)
(* text is chosen and parsed once.                                         *)

\* the longest text after "workspace" or "spawn "
MaxSuffix == 3

Digits == <<"0", "1", "2", "3", "4", "5", "6", "7", "8", "9">>

DigitChars == {Digits[d] : d \in 1..10}

TextChars == DigitChars \cup {" ", "+", "x"}

Text_exit == <<"e", "x", "i", "t">>
Text_close == <<"c", "l", "o", "s", "e">>
Text_toggle_float == <<"t", "o", "g", "g", "l", "e", "_", "f", "l", "o", "a", "t">>
Text_toggle_fullscreen == <<"t", "o", "g", "g", "l", "e", "_", "f", "u", "l", "l", "s", "c", "r", "e", "e", "n">>
Text_spawn == <<"s", "p", "a", "w", "n", " ">>
Text_workspace == <<"w", "o", "r", "k", "s", "p", "a", "c", "e">>

Suffixes == UNION {[1..k -> TextChars] : k \in 0..MaxSuffix}

starts_with(text, prefix) ==
    Len(text) >= Len(prefix) /\ SubSeq(text, 1, Len(prefix)) = prefix

\* the text from byte index from on
SliceFrom(text, from) == SubSeq(text, from + 1, Len(text))

RECURSIVE trim_start(_)
trim_start(text) ==
    IF text # <<>> /\ Head(text) = " " THEN trim_start(Tail(text)) ELSE text

RECURSIVE trim_end(_)
trim_end(text) ==
    IF text # <<>> /\ text[Len(text)] = " "
    THEN trim_end(SubSeq(text, 1, Len(text) - 1)) ELSE text

trim(text) == trim_end(trim_start(text))

DigitValue(c) == (CHOOSE d \in 1..10 : Digits[d] = c) - 1

RECURSIVE DecimalValue(_)
DecimalValue(text) ==
    IF text = <<>> THEN 0
    ELSE 10 * DecimalValue(SubSeq(text, 1, Len(text) - 1)) + DigitValue(text[Len(text)])

\* str::parse::<usize>: an optional "+" and at least one digit, nothing else
parse_usize(text) ==
    LET digits == IF text # <<>> /\ Head(text) = "+" THEN Tail(text) ELSE text
    IN IF digits # <<>> /\ \A i \in 1..Len(digits) : digits[i] \in DigitChars
       THEN Some(DecimalValue(digits))
       ELSE None

Ok(command) == [ok |-> TRUE, command |-> command]

Err == [ok |-> FALSE]

from_str(text) ==
    IF text = Text_exit THEN Ok([name |-> "Exit"])
    ELSE IF text = Text_close THEN Ok([name |-> "Close"])
    ELSE IF text = Text_toggle_float THEN Ok([name |-> "ToggleFloat"])
    ELSE IF starts_with(text, Text_spawn)
    THEN Ok([name |-> "Spawn", program |-> SliceFrom(text, 6)])
    ELSE IF starts_with(text, Text_workspace)
    THEN LET idx == parse_usize(trim(SliceFrom(text, 9)))
         IN IF ~IsSome(idx) THEN Err
            ELSE IF Unwrap(idx) = 0 \/ Unwrap(idx) > 10 THEN Err
            ELSE Ok([name |-> "Workspace", index |-> Unwrap(idx) - 1])
    ELSE Err

CommandTexts ==
    {Text_exit, Text_close, Text_toggle_float, Text_toggle_fullscreen,
     SubSeq(Text_spawn, 1, 5), Text_exit \o <<"x">>}
    \cup {Text_spawn \o t : t \in Suffixes}
    \cup {Text_workspace \o t : t \in Suffixes}

CommandInit ==
    /\ ManagerInit
    /\ \E text \in CommandTexts :
          probe = [kind |-> "command", text |-> text, done |-> FALSE, result |-> Err]

CommandParse ==
    /\ ~probe.done
    /\ probe' = [probe EXCEPT !.done = TRUE, !.result = from_str(probe.text)]
    /\ UNCHANGED <<workspaces, current_workspace, layout, gesture, running, server,
                   queue, events>>

CommandNext == CommandParse

CommandSpec == CommandInit /\ [][CommandNext]_vars

----------------------------------------------------------------------------
(* Properties                                                              *)

\* the ids of the layout engine's tile list, in order
TileIdsOf(s) == [i \in 1..Len(s.layout.windows) |-> s.layout.windows[i].id]

TileIds == TileIdsOf(State)

Range(seq) == {seq[i] : i \in 1..Len(seq)}

\* the ids of a sequence of records, in list order
IdsOf(windows) == [i \in 1..Len(windows) |-> windows[i].id]

IsTiledRecord(w) == ~w.is_floating /\ ~w.is_dock

Current == workspaces[current_workspace]

Records(ws) == Range(ws.windows)

AllRecords == UNION {Records(workspaces[i]) : i \in WorkspaceIndexes}

\* C1: the tile list is exactly the non-floating, non-dock windows
\* of the current workspace, each once, in the order of the workspace list
C1_TileListIsWorkspaceOrder == 
    TileIds = IdsOf(SelectSeq(Current.windows, IsTiledRecord))

\* C2: no non-dock window has a record in two workspaces
C2_OneWorkspacePerWindow ==
    \A w \in AllWindows :
        Cardinality({i \in WorkspaceIndexes :
                        \E r \in Records(workspaces[i]) : r.id = w /\ ~r.is_dock}) <= 1

\* C3: once DestroyNotify for w is handled, no workspace list and not the
\* tile list holds w
C3_DestroyRemovesEverywhere ==
    [][DestroyNotify =>
        LET w == Head(queue).window
        IN /\ \A i \in WorkspaceIndexes : ~HasRecord(workspaces'[i], w)
           /\ w \notin Range(TileIdsOf([layout |-> layout']))]_vars

\* C4: an UnmapNotify that answers the manager's own XUnmapWindow removes no
\* record from a workspace list and no tile
C4_OwnUnmapRemovesNothing ==
    [][(UnmapNotify /\ Head(queue).origin = "manager") =>
        /\ \A i \in WorkspaceIndexes :
              IdsOf(workspaces'[i].windows) = IdsOf(workspaces[i].windows)
        /\ TileIdsOf([layout |-> layout']) = TileIds]_vars

\* C5: a record flagged fullscreen has border width 0 and the monitor's
\* rectangle on the server
C5_FullscreenGeometry ==
    \A r \in Records(Current) :
        (r.is_fullscreen /\ server.exists[r.id]) =>
            /\ server.border[r.id] = 0
            /\ server.geom[r.id] = [x |-> MonitorX, y |-> MonitorY,
                                    width |-> MonitorWidth, height |-> MonitorHeight]

\* C6: no floating window of the current workspace is in the tile list
C6_FloatingNotTiled ==
    \A r \in Records(Current) : r.is_floating => r.id \notin Range(TileIds)

\* C7: a dock record is floating and its id is not in the tile list
C7_DockFloatingNeverTiled ==
    \A r \in AllRecords : r.is_dock => (r.is_floating /\ r.id \notin Range(TileIds))

\* the windows of the current workspace that are on screen with the focused
\* border colour
FocusedColoured ==
    {r.id : r \in {q \in Records(Current) :
                      /\ server.exists[q.id] /\ server.mapped[q.id]
                      /\ server.color[q.id] = "focused"}}

\* C8: at most one managed window carries the focused border colour
C8_OneFocusedBorder == Cardinality(FocusedColoured) <= 1

\* the input focus is on a tiled window of the current workspace and every
\* tile is a window on screen
FocusOnTiled(s, w) ==
    /\ s.server.focus = w
    /\ HasRecord(CurrentWorkspace(s), w)
    /\ IsTiledRecord(FindRecord(CurrentWorkspace(s), w))
    /\ ~FindRecord(CurrentWorkspace(s), w).is_fullscreen
    /\ w \in Range(TileIdsOf(s))
    /\ \A t \in Range(TileIdsOf(s)) : s.server.exists[t] /\ s.server.mapped[t]

\* C9: toggle-float twice on a tiled window puts it back at its place in the
\* tile list, with the rectangle it had
C9_FloatTwiceRestores ==
    \A w \in AllWindows :
        FocusOnTiled(State, w) =>
            LET s2 == toggle_float(toggle_float(State))
            IN /\ TileIdsOf(s2) = TileIds
               /\ s2.server.geom[w] = server.geom[w]

\* the pointer is over a window of the current workspace that is not
\* fullscreen and is floating or tiled
PointerOn(s, w) ==
    /\ XQueryPointer(s).child = w
    /\ HasRecord(CurrentWorkspace(s), w)
    /\ ~FindRecord(CurrentWorkspace(s), w).is_fullscreen
    /\ ~FindRecord(CurrentWorkspace(s), w).is_dock
    /\ \/ FindRecord(CurrentWorkspace(s), w).is_floating
       \/ w \in Range(TileIdsOf(s))

\* C10: toggle-fullscreen twice restores geometry and border width
C10_FullscreenTwiceRestores ==
    \A w \in AllWindows :
        PointerOn(State, w) =>
            LET s2 == toggle_fullscreen(toggle_fullscreen(State))
            IN /\ s2.server.geom[w] = server.geom[w]
               /\ s2.server.border[w] = server.border[w]

\* C10 witness: with a dock on screen the pointer is over the second of two
\* tiles, whose first toggle covers the monitor and drops the border
C10_Witness ==
    \E w \in Clients :
        /\ PointerOn(State, w)
        /\ Len(TileIds) = 2 /\ TileIds[2] = w
        /\ server.mapped[w] /\ server.border[w] = border_width
        /\ layout.dock_height > 0
        /\ LET s1 == toggle_fullscreen(State)
           IN /\ FindRecord(CurrentWorkspace(s1), w).is_fullscreen
              /\ s1.server.border[w] = 0
              /\ s1.server.geom[w] # server.geom[w]

\* the step handles a request to switch workspace, from a bind or a pager
IsSwitchStep ==
    \/ KeyPress /\ Head(queue).command.name = "Workspace"
    \/ ClientMessageEvent

\* the index the request names
SwitchIndex ==
    IF Head(queue).type = "KeyPress" THEN Head(queue).command.index
    ELSE Head(queue).index

\* C11: right after a switch to a valid index other than the current one,
\* _NET_CURRENT_DESKTOP is that index and every non-dock window of the
\* workspace that was left is unmapped
C11_SwitchUnmapsOutgoing ==
    [][(IsSwitchStep /\ SwitchIndex \in WorkspaceIndexes
            /\ SwitchIndex # current_workspace) =>
        /\ server'.net_current_desktop = SwitchIndex
        /\ \A r \in Records(Current) :
              (~r.is_dock /\ server.exists[r.id]) => ~server'.mapped[r.id]]_vars

\* the windows that some workspace records as a dock
DockIds == {r.id : r \in {q \in AllRecords : q.is_dock}}

\* C12: no workspace switch unmaps a window whose record is a dock
C12_DocksStayMapped ==
    [][IsSwitchStep =>
        \A w \in DockIds : server.mapped[w] => server'.mapped[w]]_vars

\* C12 witness: workspace 1 was switched to, the dock is on screen there and
\* a client window of workspace 0 is hidden
C12_Witness ==
    /\ current_workspace = 1
    /\ \E d \in DockIds : server.mapped[d] /\ HasRecord(Current, d)
    /\ \E c \in Clients :
          /\ HasRecord(workspaces[0], c) /\ ~HasRecord(Current, c)
          /\ server.exists[c] /\ ~server.mapped[c]

\* C13: a switch request that names the current workspace or an index out
\* of range changes nothing: current workspace, workspace lists, tile list,
\* focus, map state and _NET_CURRENT_DESKTOP stay as they were
C13_IgnoredSwitch ==
    [][(IsSwitchStep /\ (SwitchIndex \notin WorkspaceIndexes
                           \/ SwitchIndex = current_workspace)) =>
        /\ UNCHANGED <<current_workspace, workspaces, layout>>
        /\ server'.focus = server.focus
        /\ server'.mapped = server.mapped
        /\ server'.net_current_desktop = server.net_current_desktop
        /\ server'.net_active_window = server.net_active_window]_vars

\* C13 witness: with two tiles on screen and the focus on the first, the
\* next event the manager reads asks for the workspace it already shows
C13_Witness ==
    /\ running /\ queue # <<>>
    /\ Head(queue).type \in {"KeyPress", "ClientMessage"}
    /\ IF Head(queue).type = "KeyPress"
       THEN Head(queue).command = [name |-> "Workspace", index |-> current_workspace]
       ELSE Head(queue).index = current_workspace
    /\ Len(TileIds) = 2
    /\ server.focus = TileIds[1]
    /\ \A t \in Range(TileIds) : server.mapped[t]

\* the rectangle left of the monitor once the dock strut and the outer gaps
\* are taken off
UsableRect(p) ==
    [x |-> MonitorX + p.gaps,
     y |-> MonitorY + (IF p.dock_position = "Top" THEN p.dock_height ELSE 0) + p.gaps,
     width |-> p.width - 2 * p.gaps,
     height |-> p.height - p.dock_height - 2 * p.gaps]

\* rectangle a lies inside rectangle b
Inside(a, b) ==
    /\ a.x >= b.x /\ a.x + a.width <= b.x + b.width
    /\ a.y >= b.y /\ a.y + a.height <= b.y + b.height

\* rectangles a and b share no pixel
Disjoint(a, b) ==
    \/ a.x + a.width <= b.x \/ b.x + b.width <= a.x
    \/ a.y + a.height <= b.y \/ b.y + b.height <= a.y

\* C14: the tiles of one relayout are pairwise disjoint and each lies inside
\* the usable rectangle (borders left out of the rectangles)
C14_TilesDisjointInside ==
    probe.done =>
        /\ \A i, j \in 1..probe.n :
              i # j => Disjoint(probe.tiles[i], probe.tiles[j])
        /\ \A i \in 1..probe.n : Inside(probe.tiles[i], UsableRect(probe))

\* usable inner width and height as the layout section of the specification
\* words them: the monitor less the dock strut and the outer gaps
InnerWidth(p) == p.width - 2 * p.gaps

InnerHeight(p) == p.height - p.dock_height - 2 * p.gaps

\* the tiles of the master-stack function, ratio 0.5, with subtractions that
\* stop at 0 when saturate is set; n = 0 gives no tile
MasterStack(p, saturate) ==
    LET Sub(a, b) == IF saturate THEN saturating_sub(a, b) ELSE a - b
        W == InnerWidth(p)
        H == InnerHeight(p)
        g == p.gaps
        n == p.n
        x0 == MonitorX + g
        y0 == MonitorY + (IF p.dock_position = "Top" THEN p.dock_height ELSE 0) + g
        master == W \div 2
        h == Sub(H, g * (n - 2)) \div (n - 1)
    IN [i \in 1..n |->
          IF n = 1 THEN [x |-> x0, y |-> y0, width |-> W, height |-> H]
          ELSE IF i = 1 THEN [x |-> x0, y |-> y0, width |-> master, height |-> H]
          ELSE [x |-> x0 + master + g, y |-> y0 + (i - 2) * (h + g),
                width |-> Sub(Sub(W, master), g), height |-> h]]

TwoClientsTiled ==
    /\ Len(TileIds) = 2 /\ TileIds[1] # TileIds[2]
    /\ layout.dock_position = "None"
    /\ \A t \in Range(TileIds) :
          /\ t \in Clients /\ server.exists[t] /\ server.mapped[t]
          /\ \A r \in Records(Current) :
                r.id = t => (~r.is_floating /\ ~r.is_fullscreen /\ ~r.is_dock)
          /\ HasRecord(Current, t)

\* the step handles a motion of a drag that carries one of the two tiles
\* over the other
DragOverOtherTile ==
    /\ MotionNotify /\ TwoClientsTiled
    /\ gesture.dragging /\ IsSome(gesture.dragged_window)
    /\ Unwrap(gesture.dragged_window) \in Range(TileIds)
    /\ XQueryPointer(State).child \in Range(TileIds) \ {Unwrap(gesture.dragged_window)}

\* the tiles exchange places and rectangles in this step
TilesExchanged ==
    /\ TileIdsOf([layout |-> layout']) = <<TileIds[2], TileIds[1]>>
    /\ server'.geom[TileIds[1]] = server.geom[TileIds[2]]
    /\ server'.geom[TileIds[2]] = server.geom[TileIds[1]]

\* the first tile has rectangle m and the second rectangle k
TwoTilesAt(m, k) ==
    /\ server.geom[TileIds[1]] = [x |-> m[1], y |-> m[2], width |-> m[3], height |-> m[4]]
    /\ server.geom[TileIds[2]] = [x |-> k[1], y |-> k[2], width |-> k[3], height |-> k[4]]

\* C16 as stated: with two clients tiled on the 1920x1080 monitor the
\* master tile is (8, 8, 956, 1064) and the stack tile (972, 8, 940, 1064),
\* and a drag of one over the other exchanges their tiles
C16_TwoTilesAsWritten ==
    [][/\ TwoClientsTiled' =>
              TwoTilesAt(<<8, 8, 956, 1064>>, <<972, 8, 940, 1064>>)'
       /\ DragOverOtherTile => TilesExchanged]_vars

\* C16 as amended: the master tile is (8, 8, 952, 1064) and the stack tile
\* (968, 8, 944, 1064), and a drag of one over the other exchanges their tiles
C16_TwoTilesAsComputed ==
    [][/\ TwoClientsTiled' =>
              TwoTilesAt(<<8, 8, 952, 1064>>, <<968, 8, 944, 1064>>)'
       /\ DragOverOtherTile => TilesExchanged]_vars

\* C16 witness: the second client mapped is the master tile and the first
\* the stack tile, a drag being in progress
C16_Witness ==
    /\ TwoClientsTiled /\ gesture.dragging
    /\ IdsOf(Current.windows) = <<TileIds[2], TileIds[1]>>
    /\ gesture.dragged_window = Some(TileIds[1])
    /\ MonitorWidth = 1920 /\ MonitorHeight = 1080

\* the step executes the Close bind
IsCloseStep == KeyPress /\ Head(queue).command.name = "Close"

\* the window the Close bind targets, 0 when there is none or it is a dock
CloseTargetId ==
    LET t == CloseTarget(Dequeued).id
    IN IF HasRecord(Current, t) /\ FindRecord(Current, t).is_dock THEN 0 ELSE t

\* C17: a Close that targets a client listing WM_DELETE_WINDOW sends it
\* exactly one ClientMessage (WM_PROTOCOLS, format 32, data[0]
\* WM_DELETE_WINDOW) and no DestroyWindow; a Close that targets any other
\* window destroys it and sends no ClientMessage
C17_PoliteClose ==
    [][(IsCloseStep /\ CloseTargetId # 0) =>
          IF SupportsDelete(State, CloseTargetId)
          THEN /\ server'.sent =
                     <<[request |-> "SendEvent", window |-> CloseTargetId,
                        event |-> [type |-> "ClientMessage", window |-> CloseTargetId,
                                   message_type |-> "WM_PROTOCOLS", format |-> 32,
                                   data0 |-> "WM_DELETE_WINDOW"]]>>
               /\ server'.exists[CloseTargetId]
          ELSE /\ server'.sent = <<[request |-> "DestroyWindow", window |-> CloseTargetId]>>
               /\ CloseTargetId \in AllWindows => ~server'.exists[CloseTargetId]]_vars

\* C17 witness: the manager has just sent the polite ClientMessage to a
\* managed client, which is still there
C17_Witness ==
    /\ Len(server.sent) = 1 /\ server.sent[1].request = "SendEvent"
    /\ server.exists[server.sent[1].window] /\ server.mapped[server.sent[1].window]
    /\ HasRecord(Current, server.sent[1].window)

\* the step executes the Exit bind
IsExitStep == KeyPress /\ Head(queue).command.name = "Exit"

\* C18: the running flag changes in no step but an executed Exit bind,
\* which clears it, and once it is cleared no event is taken from the queue
\* and nothing the manager holds or has sent changes
C18_OnlyExitStops ==
    [][/\ running' # running => (IsExitStep /\ running /\ ~running')
       /\ ~running =>
             /\ ~running'
             /\ UNCHANGED <<workspaces, current_workspace, layout, gesture>>
             /\ server'.sent = server.sent
             /\ server'.net_active_window = server.net_active_window
             /\ server'.net_current_desktop = server.net_current_desktop
             /\ Len(queue') >= Len(queue)
             /\ SubSeq(queue', 1, Len(queue)) = queue]_vars

\* C18 witness: the loop has stopped with events still waiting, a
\* MapRequest among them
C18_Witness ==
    /\ ~running /\ queue # <<>>
    /\ \E i \in 1..Len(queue) : queue[i].type = "MapRequest"

\* the step handles an event taken from the queue
IsDispatchStep ==
    \/ KeyPress \/ MapRequest \/ UnmapNotify \/ DestroyNotify \/ MotionNotify
    \/ ButtonPress \/ ButtonRelease \/ EnterNotify \/ ClientMessageEvent

\* C19: after every handled event that changes which window the manager
\* focuses, _NET_ACTIVE_WINDOW is the window that now has the manager's
\* focus (here: a client window that exists, is mapped and is a tile)
C19_ActiveWindowFollowsFocus ==
    [][(/\ IsDispatchStep
        /\ layout'.focused_window # layout.focused_window
        /\ IsSome(layout'.focused_window)
        /\ server'.exists[Unwrap(layout'.focused_window)]
        /\ server'.mapped[Unwrap(layout'.focused_window)]
        /\ server'.focus = Unwrap(layout'.focused_window)
        /\ \E i \in 1..Len(layout'.windows) :
               layout'.windows[i].id = Unwrap(layout'.focused_window))
          => server'.net_active_window = Unwrap(layout'.focused_window)]_vars

\* C20: right after add_window(w) the workspace's focused window is w and
\* w is the last element of the list, behind the elements there were
C20_AddFocusesLast ==
    probe.done =>
        /\ probe.focused_window = Some(probe.window)
        /\ Len(probe.after.windows) = Len(probe.before.windows) + 1
        /\ probe.after.windows[Len(probe.after.windows)] = probe.window
        /\ SubSeq(probe.after.windows, 1, Len(probe.before.windows)) = probe.before.windows

\* C20 witness: a window is added to a workspace of two other records whose
\* focus was on the first
C20_Witness ==
    /\ probe.done
    /\ Len(probe.before.windows) = 2
    /\ probe.before.focused = Some(0)
    /\ \A i \in 1..2 : probe.before.windows[i].id # probe.window.id
    /\ probe.focused_window = Some(probe.window)

\* a record with the id of the chosen window is in the workspace before
RemovedIdPresent ==
    \E i \in 1..Len(probe.before.windows) : probe.before.windows[i].id = probe.window.id

\* C21: remove_window(id) makes the list one shorter if and only if a record
\* with that id was in it, and leaves the list and the focus index as they
\* were when there was none
C21_RemoveDropsOneIffPresent ==
    probe.removed =>
        /\ (Len(probe.after_remove.windows) = Len(probe.before.windows) - 1)
              <=> RemovedIdPresent
        /\ RemovedIdPresent \/ probe.after_remove = probe.before

\* C21 witness: the id was in the list of three twice, and one record of it
\* is left
C21_Witness ==
    /\ probe.removed
    /\ Len(probe.before.windows) = 3
    /\ Cardinality({i \in 1..3 : probe.before.windows[i].id = probe.window.id}) = 2
    /\ Len(probe.after_remove.windows) = 2
    /\ \E i \in 1..2 : probe.after_remove.windows[i].id = probe.window.id

\* the focus index of the workspace before is in range and on a record of
\* the chosen window's id
RemovesFocused ==
    /\ IsSome(probe.before.focused)
    /\ Unwrap(probe.before.focused) < Len(probe.before.windows)
    /\ probe.before.windows[Unwrap(probe.before.focused) + 1].id = probe.window.id

\* the focus index is on the first record of the chosen window's id
RemovesFocusedFirst ==
    /\ RemovesFocused
    /\ Position(probe.before.windows, probe.window.id) = Unwrap(probe.before.focused) + 1

\* the focused window afterwards is the record at index max(0, idx - 1) of
\* the remaining list
FocusedIsPrevious ==
    LET idx == Unwrap(probe.before.focused)
    IN /\ probe.after_remove.focused = Some(Max(0, idx - 1))
       /\ probe.focused_after_remove =
             Some(probe.after_remove.windows[Max(0, idx - 1) + 1])

\* C22 as stated: after the remove of the focused element of a non-empty
\* list the workspace reports a focused window, the one at index
\* max(0, idx - 1) of the remaining list
C22_FocusedAfterRemove ==
    (probe.removed /\ RemovesFocused) =>
        IsSome(probe.focused_after_remove) /\ FocusedIsPrevious

\* C22 as amended: after the remove of the focused element, the first of its
\* id, the workspace reports the window at index max(0, idx - 1) of the
\* remaining list when a record remains, and no focused window when none does
C22_FocusedAfterRemoveIfAnyRemain ==
    (probe.removed /\ RemovesFocusedFirst) =>
        IF Len(probe.before.windows) >= 2
        THEN IsSome(probe.focused_after_remove) /\ FocusedIsPrevious
        ELSE /\ probe.after_remove = [windows |-> <<>>, focused |-> None]
             /\ probe.focused_after_remove = None

\* C22 witness: the focused third record of three is removed
C22_Witness ==
    /\ probe.removed /\ RemovesFocusedFirst
    /\ Len(probe.before.windows) = 3 /\ probe.before.focused = Some(2)
    /\ probe.focused_after_remove = Some(probe.before.windows[2])

\* the decimal numeral of n, for n below 100
Numeral(n) ==
    IF n < 10 THEN <<Digits[n + 1]>> ELSE <<Digits[(n \div 10) + 1], Digits[(n % 10) + 1]>>

\* the table of recognised texts
ParsedAsTable ==
    /\ probe.text = Text_exit => probe.result = Ok([name |-> "Exit"])
    /\ probe.text = Text_close => probe.result = Ok([name |-> "Close"])
    /\ probe.text = Text_toggle_float => probe.result = Ok([name |-> "ToggleFloat"])
    /\ starts_with(probe.text, Text_spawn) =>
          probe.result = Ok([name |-> "Spawn", program |-> SubSeq(probe.text, 7, Len(probe.text))])
    /\ \A n \in 0..99 :
          probe.text = Text_workspace \o Numeral(n) =>
             IF 1 <= n /\ n <= 10
             THEN probe.result = Ok([name |-> "Workspace", index |-> n - 1])
             ELSE probe.result = Err
    /\ (probe.result.ok /\ probe.result.command.name = "Workspace") =>
          probe.result.command.index \in 0..9

\* C23: every text is parsed as the table says: exit, close, toggle_float,
\* toggle_fullscreen, spawn X and workspaceN for N in 1..10 give their
\* actions, and every parsed Workspace index is in 0..9
C23_ParsesTable ==
    probe.done =>
        /\ ParsedAsTable
        /\ probe.text = Text_toggle_fullscreen =>
              probe.result = Ok([name |-> "ToggleFullscreen"])

\* the step handles the removal of a window: UnmapNotify or DestroyNotify
IsRemoveStep == UnmapNotify \/ DestroyNotify

\* the ids of the tiles other than the window the event at the head of the
\* queue is about, in tile order
OtherTiles == SelectSeq(TileIds, LAMBDA t : t # Head(queue).window)

\* C24: when the removed window is the layout's focused window and another
\* tile exists, the layout focuses the last tile whose id differs; when the
\* removed window is not the focused one the layout's focused window stays
C24_RemoveFocusesLastOther ==
    [][IsRemoveStep =>
          IF layout.focused_window = Some(Head(queue).window)
          THEN OtherTiles # <<>> =>
                  layout'.focused_window = Some(OtherTiles[Len(OtherTiles)])
          ELSE layout'.focused_window = layout.focused_window]_vars

\* the window of the MapRequest at the head of the queue
MapRequestWindow == Head(queue).window

\* what holds of window w once its MapRequest is handled
MappedAsNewest(w) ==
    /\ server'.mapped[w]
    /\ LET ws == workspaces'[current_workspace']
       IN ws.windows # <<>> /\ ws.windows[Len(ws.windows)].id = w
    /\ layout'.windows # <<>> /\ layout'.windows[Len(layout'.windows)].id = w
    /\ layout'.focused_window = Some(w)
    /\ FocusedColoured' = {w}
    /\ server'.net_active_window = w
    /\ \A i \in WorkspaceIndexes \ {current_workspace} : workspaces'[i] = workspaces[i]

\* C25 as stated: after the MapRequest of a non-dock window w is handled, w
\* is mapped, is the last record of the current workspace and the last tile,
\* is the layout's focused window and the only window of the workspace with
\* the focused colour, _NET_ACTIVE_WINDOW is w, and no other workspace changes
C25_MapRequestAddsFocused ==
    [][(MapRequest /\ MapRequestWindow \in Clients) =>
          MappedAsNewest(MapRequestWindow)]_vars

\* C25 for a window that still exists when its MapRequest is handled
C25_MapRequestOfLiveWindow ==
    [][(MapRequest /\ MapRequestWindow \in Clients /\ server.exists[MapRequestWindow]) =>
          MappedAsNewest(MapRequestWindow)]_vars

\* C25 witness: the second client has just been mapped behind the first,
\* which had the focused colour before and has the normal one now
C25_Witness ==
    /\ Len(Current.windows) = 2 /\ Current.windows[1].id # Current.windows[2].id
    /\ TileIds = IdsOf(Current.windows)
    /\ layout.focused_window = Some(Current.windows[2].id)
    /\ server.net_active_window = Current.windows[2].id
    /\ server.mapped[Current.windows[1].id] /\ server.mapped[Current.windows[2].id]
    /\ server.color[Current.windows[1].id] = "normal"
    /\ server.color[Current.windows[2].id] = "focused"

\* (id, is_floating) of the window the Close bind targets
CloseTargetRecord == CloseTarget(Dequeued)

\* the window close_focused_window chooses to focus next, as an Option
CloseChosen == CloseNext(Dequeued, CloseTargetRecord.id, CloseTargetRecord.is_floating)

\* the non-dock records of the current workspace other than the closed one
RemainingRecords ==
    SelectSeq(Current.windows, LAMBDA w : ~w.is_dock /\ w.id # CloseTargetId)

\* the last remaining floating sibling of a floating window, otherwise the
\* last remaining tiled window
PreferredNext ==
    LET floating == SelectSeq(RemainingRecords, LAMBDA w : w.is_floating)
        tiled == SelectSeq(RemainingRecords, LAMBDA w : ~w.is_floating)
    IN IF CloseTargetRecord.is_floating /\ floating # <<>>
       THEN Some(floating[Len(floating)].id)
       ELSE IF tiled # <<>> THEN Some(tiled[Len(tiled)].id)
       ELSE None

\* C26: the window that receives the focus after a close is a remaining
\* window of the current workspace, not the closed one and not a dock: the
\* last remaining floating sibling when the closed window was floating,
\* otherwise the last remaining tiled window
C26_CloseFocusesRemaining ==
    [][(IsCloseStep /\ CloseTargetId # 0 /\ IsSome(CloseChosen)) =>
          /\ server'.net_active_window = Unwrap(CloseChosen).id
          /\ Unwrap(CloseChosen).id # CloseTargetId
          /\ \E i \in 1..Len(RemainingRecords) :
                RemainingRecords[i].id = Unwrap(CloseChosen).id
          /\ PreferredNext = Some(Unwrap(CloseChosen).id)]_vars

\* the window of the gesture that the ButtonRelease at the head of the queue
\* ends, 0 when no gesture is in progress
GestureWindow ==
    IF gesture.dragging /\ IsSome(gesture.dragged_window)
    THEN Unwrap(gesture.dragged_window)
    ELSE IF ~gesture.dragging /\ gesture.resizing /\ IsSome(gesture.resized_window)
    THEN Unwrap(gesture.resized_window)
    ELSE 0

\* window w is a floating window of the current workspace, on screen, not
\* fullscreen, and has the input focus
FocusOnFloating(s, w) ==
    /\ w \in Clients
    /\ s.server.focus = w /\ s.server.exists[w] /\ s.server.mapped[w]
    /\ HasRecord(CurrentWorkspace(s), w)
    /\ FindRecord(CurrentWorkspace(s), w).is_floating
    /\ ~FindRecord(CurrentWorkspace(s), w).is_fullscreen
    /\ \A r \in Records(CurrentWorkspace(s)) : r.id = w => r.is_floating

\* C27: once a move or resize gesture on a floating window has ended,
\* toggle-float twice (floating to tiled and back) leaves the window at the
\* position and size it had when the gesture ended
C27_GestureGeometryPersists ==
    [][(ButtonRelease /\ GestureWindow # 0 /\ FocusOnFloating(State', GestureWindow)) =>
          LET s2 == toggle_float(toggle_float(State'))
          IN s2.server.geom[GestureWindow] = server'.geom[GestureWindow]]_vars

\* C28: during a resize the new width is max(100, start_width + dx) and the
\* new height max(100, start_height + dy), for every delta: never below 100
\* and never a wrapped-around value
C28_ResizeClamped ==
    probe.done =>
        /\ probe.new_width = Max(100, probe.resize_start_width + probe.dx)
        /\ probe.new_height = Max(100, probe.resize_start_height + probe.dy)
        /\ probe.new_width >= 100 /\ probe.new_height >= 100
        /\ probe.new_width <= Max(100, probe.resize_start_width + Max(0, probe.dx))
        /\ probe.new_height <= Max(100, probe.resize_start_height + Max(0, probe.dy))

\* the last KeyPress the manager received executed an action
KeyExecuted == IsSome(probe.event) /\ probe.executed # <<>>

\* the commands executed are the one command bound to the event's key
OneBoundCommand ==
    /\ Len(probe.executed) = 1
    /\ \E i \in 1..Len(Binds) :
          /\ Binds[i].key = Unwrap(probe.event).keycode
          /\ Binds[i].command = probe.executed[1]

\* C29: a KeyPress executes an action only when its keycode is the bind's
\* and every bit of the configured modifier mask is set in its state, and
\* it executes that one action and no other
C29_WholeMaskAndKeycode ==
    KeyExecuted =>
        /\ get_modifier(probe.modifier) \subseteq Unwrap(probe.event).state
        /\ OneBoundCommand

\* the step is a press that a notification consumes
IsConsumedPress ==
    /\ probe.kind = "notifications"
    /\ probe'.notifications # probe.notifications

\* C30: a ButtonPress that a notification consumes starts no move or resize
\* gesture and changes neither the focus, nor a border colour, nor
\* _NET_ACTIVE_WINDOW
C30_ConsumedPressStops ==
    [][IsConsumedPress =>
          /\ gesture' = gesture
          /\ layout'.focused_window = layout.focused_window
          /\ server'.focus = server.focus
          /\ server'.color = server.color
          /\ server'.net_active_window = server.net_active_window]_vars

\* the step handles a MotionNotify while no gesture is active
IsIdleMotionStep ==
    /\ running /\ queue # <<>> /\ Head(queue).type = "MotionNotify"
    /\ events' = events
    /\ ~gesture.dragging /\ ~gesture.resizing

\* C31: an idle MotionNotify changes the focused window, the input focus
\* or a border colour only if focus-follows-mouse is enabled and the pointer
\* is over a window that is not the root
C31_IdleMotionFocusesOnlyIfEnabled ==
    [][IsIdleMotionStep
       /\ \/ layout'.focused_window # layout.focused_window
          \/ server'.focus # server.focus
          \/ server'.color # server.color
       => /\ focus_follows_mouse
          /\ XQueryPointer(State).child \notin {0, Root}]_vars

\* the step handles a ButtonRelease
IsReleaseStep ==
    /\ running /\ queue # <<>> /\ Head(queue).type = "ButtonRelease"
    /\ events' = events

NoGestureActive(g) ==
    /\ ~g.dragging /\ ~g.resizing
    /\ g.dragged_window = None /\ g.resized_window = None

\* C32: after a ButtonRelease is handled no gesture is active: dragging and
\* resizing are false, dragged_window and resized_window are None
C32_ReleaseEndsGestures == [][IsReleaseStep => NoGestureActive(gesture')]_vars

\* the window the bind of the KeyPress at the head of the queue resolves to
ResolvedWindow ==
    LET name == Head(queue).command.name
    IN CASE name = "ToggleFloat" -> FocusedWindowId(State)
         [] name = "ToggleFullscreen" -> XQueryPointer(State).child
         [] name = "Close" -> CloseTarget(State).id
         [] OTHER -> 0

\* the step handles a toggle-float, toggle-fullscreen or close whose lookup
\* fails: no window, or a window with no record in the current workspace
IsFailedLookupStep ==
    /\ KeyPress
    /\ Head(queue).command.name \in {"ToggleFloat", "ToggleFullscreen", "Close"}
    /\ ~HasRecord(Current, ResolvedWindow)

\* C33: a toggle-float, toggle-fullscreen or close whose lookup fails
\* changes nothing: records, tile list, layout focus, input focus, border
\* colours and _NET_ACTIVE_WINDOW stay as they were
C33_FailedLookupIsNoOp ==
    [][IsFailedLookupStep =>
          /\ workspaces' = workspaces
          /\ layout' = layout
          /\ server'.focus = server.focus
          /\ server'.color = server.color
          /\ server'.net_active_window = server.net_active_window]_vars

\* the rows of the monitor a dock record reserves: the top edge for a dock
\* in the upper half of the monitor, the bottom edge for any other
Strut(dock) ==
    IF dock.y < MonitorHeight \div 2
    THEN [from |-> MonitorY, to |-> MonitorY + dock.height]
    ELSE [from |-> MonitorY + MonitorHeight - dock.height,
          to |-> MonitorY + MonitorHeight]

\* the docks of the current workspace that are mapped
MappedDocks == {r \in Records(Current) : r.is_dock /\ server.mapped[r.id]}

\* C34: no tile overlaps the strut of a mapped dock
C34_TilesAvoidEveryStrut ==
    \A i \in 1..Len(layout.windows) : \A dock \in MappedDocks :
        LET tile == layout.windows[i]
        IN tile.y + tile.height <= Strut(dock).from \/ Strut(dock).to <= tile.y

\* C35: the centring never aborts, and places the window at the monitor's
\* origin plus half of (monitor size - floating size), with no wrap-around
C35_CentredWithoutUnderflow ==
    (probe.kind = "centre" /\ probe.done) =>
        /\ ~probe.aborted
        /\ probe.new_x = probe.monitor.x_org
                         + ((probe.monitor.width - probe.float_width) \div 2)
        /\ probe.new_y = probe.monitor.y_org
                         + ((probe.monitor.height - probe.float_height) \div 2)

\* C36: after any adds and removes, the focus index of a workspace is None
\* or an index of its window list
C36_FocusIndexInRange ==
    probe.kind = "history" =>
        \/ probe.ws.focused = None
        \/ Unwrap(probe.ws.focused) < Len(probe.ws.windows)

\* the state after a switch to workspace j and a switch back, with no other
\* event handled in between
ThereAndBack(j) ==
    switch_to_workspace(switch_to_workspace(State, j), current_workspace)

\* C37: a switch to another workspace and back restores the tile list, the
\* tiles in the same order and at the same places
C37_SwitchRoundTripKeepsTiles ==
    \A j \in WorkspaceIndexes \ {current_workspace} :
        ThereAndBack(j).layout.windows = layout.windows

\* C38: the layout's focused window is None or a window with a record in
\* the current workspace
C38_LayoutFocusIsCurrentRecord ==
    IsSome(layout.focused_window) => HasRecord(Current, Unwrap(layout.focused_window))

\* no workspace holds the record of a dock
NoDockManaged == \A r \in AllRecords : ~r.is_dock

\* C39: while no dock is managed the layout reserves no strut: the dock
\* position is None and the dock height 0
C39_StrutFollowsDocks ==
    NoDockManaged => (layout.dock_position = "None" /\ layout.dock_height = 0)

\* C40: every delivered signal is followed by a reload that reads the
\* configuration after that signal was delivered
C40_NoReloadLost ==
    \A k \in 1..MaxModifications :
        (probe.kind = "reload" /\ probe.delivered >= k) ~> (probe.seen >= k)
====
